---- MODULE Spec2Model ----
(***************************************************************************)
(* Model of the FinOps billing pipeline: the persistence store             *)
(* (database/data_access.py on top of an SQLAlchemy session), the billing  *)
(* client (utils/aws_cost_manager.py), the analysis backends               *)
(* (utils/*_manager.py) and the user actions of app/app.py that tie them   *)
(* together.                                                               *)
(*                                                                         *)
(* Conventions.  A Python dict is a function whose DOMAIN is its key set;  *)
(* dict.get(k, d) is Get(d, k, default).  Python None is the string None   *)
(* in text columns and the number NoneNum in numeric columns.  Money is    *)
(* counted in whole currency units, dates in whole days.  An Optional      *)
(* result (get_user_settings) is a sequence of length 0 (None) or 1.       *)
(***************************************************************************)
EXTENDS Integers, Sequences, FiniteSets, TLC

VARIABLES
    aws_cost_data,         \* committed rows of finops.aws_cost_data, in insertion order
    cost_forecasts,        \* committed rows of finops.cost_forecasts
    cost_recommendations,  \* committed rows of finops.cost_recommendations
    chat_history,          \* committed rows of finops.chat_history
    user_settings,         \* committed rows of finops.user_settings
    session,               \* the SQLAlchemy session held by DataAccess.db: pending objects
    now,                   \* database clock (func.now())
    next_id,               \* source of fresh primary keys (uuid.uuid4)
    writes,                \* per write call made so far: its outcome and the keys it built (ghost)
    last,                  \* the last call made by a caller: arguments and outcome
    aws,                   \* the billing client (AWSCostManager) and its last call
    llm,                   \* the analysis backend constructed last and its last call
    app,                   \* st.session_state, the rendered page and the trace of the last user action
    ops                    \* number of calls the callers still make

tables == <<aws_cost_data, cost_forecasts, cost_recommendations, chat_history, user_settings>>
storeVars == <<aws_cost_data, cost_forecasts, cost_recommendations, chat_history,
               user_settings, session, now, next_id, writes>>

-----------------------------------------------------------------------------
(* Bounds of the model *)

MaxOps == 2          \* calls per behaviour of the store specification
MaxSettingsOps == 4  \* calls per behaviour of the settings specification
MaxChatOps == 4      \* calls per behaviour of the chat specification
MaxBatch == 2        \* items per submitted batch

-----------------------------------------------------------------------------
(* Python values *)

None == "None"
NoneNum == 0 - 1

Get(d, k, default) == IF k \in DOMAIN d THEN d[k] ELSE default

\* An item that is not a dict (a str, None, ...): item.get raises AttributeError.
NotADict == [__notdict__ |-> TRUE]
IsDict(item) == "__notdict__" \notin DOMAIN item

Range(s) == {s[i] : i \in DOMAIN s}

SeqsUpTo(S, n) == UNION {[1..k -> S] : k \in 0..n}

\* All orderings of a finite set.
Perms(S) == {p \in [1..Cardinality(S) -> S] : Range(p) = S}

\* Column(Float) and Python float: binary floating point.  The model keeps
\* FloatMantissaBits significant bits and rounds to nearest, ties to even;
\* amounts are whole units, so only large magnitudes are rounded.
FloatMantissaBits == 5

RECURSIVE BitLength(_)
BitLength(n) == IF n = 0 THEN 0 ELSE 1 + BitLength(n \div 2)

Abs(x) == IF x < 0 THEN 0 - x ELSE x

RoundToFloat(x) ==
    LET n == Abs(x)
        e == BitLength(n) - FloatMantissaBits
        q == 2 ^ e
        lo == (n \div q) * q
        rem == n - lo
        up == \/ 2 * rem > q
              \/ 2 * rem = q /\ (lo \div q) % 2 = 1
        r == IF e <= 0 THEN n ELSE IF up THEN lo + q ELSE lo
    IN  IF x < 0 THEN 0 - r ELSE r

\* a + b of two floats.
fadd(a, b) == RoundToFloat(a + b)

\* func.sum over a Float column: the rows are accumulated one by one in
\* the order the scan delivers them.
RECURSIVE SumBy(_, _)
SumBy(rows, f) == IF rows = <<>> THEN 0
                  ELSE fadd(SumBy(SubSeq(rows, 1, Len(rows) - 1), f), rows[Len(rows)][f])

Min(a, b) == IF a <= b THEN a ELSE b

-----------------------------------------------------------------------------
(* database/models.py: the mapped rows.  Column defaults are applied when  *)
(* the key is absent from the constructor arguments.                       *)

AWSCostData(item, id) ==
    [id |-> id,
     account_id |-> Get(item, "account_id", None),
     service_name |-> Get(item, "service", None),
     cost |-> Get(item, "cost", NoneNum),
     start_date |-> Get(item, "start_date", NoneNum),
     end_date |-> Get(item, "end_date", NoneNum),
     date_range_type |-> Get(item, "date_range_type", "daily"),
     currency |-> Get(item, "currency", "USD")]

CostForecast(item, id) ==
    [id |-> id,
     account_id |-> Get(item, "account_id", None),
     service_name |-> Get(item, "service_name", None),
     forecast_date |-> Get(item, "forecast_date", NoneNum),
     forecasted_cost |-> Get(item, "forecasted_cost", NoneNum),
     confidence_level |-> Get(item, "confidence_level", NoneNum),
     model_version |-> Get(item, "model_version", None)]

CostRecommendation(item, id) ==
    [id |-> id,
     account_id |-> Get(item, "account_id", None),
     resource_id |-> Get(item, "resource_id", None),
     service_name |-> Get(item, "service_name", None),
     recommendation_type |-> Get(item, "recommendation_type", None),
     description |-> Get(item, "description", None),
     potential_savings |-> Get(item, "potential_savings", NoneNum),
     status |-> Get(item, "status", "open")]

\* nullable=False columns, checked by the database when the row is flushed.
NotNullOK(obj) ==
    CASE obj.tbl = "aws_cost_data" ->
            /\ obj.row.account_id # None /\ obj.row.service_name # None
            /\ obj.row.cost # NoneNum /\ obj.row.start_date # NoneNum
            /\ obj.row.end_date # NoneNum
      [] obj.tbl = "cost_forecasts" ->
            /\ obj.row.account_id # None /\ obj.row.service_name # None
            /\ obj.row.forecast_date # NoneNum /\ obj.row.forecasted_cost # NoneNum
      [] obj.tbl = "cost_recommendations" ->
            /\ obj.row.account_id # None /\ obj.row.service_name # None
            /\ obj.row.recommendation_type # None /\ obj.row.description # None
      [] obj.tbl = "chat_history" ->
            /\ obj.row.session_id # NoneNum /\ obj.row.user_query # None
            /\ obj.row.assistant_response # None
      [] obj.tbl = "user_settings" -> obj.row.user_id # None

-----------------------------------------------------------------------------
(* The SQLAlchemy session (autocommit=False, autoflush=False): objects     *)
(* passed to add() stay pending until commit() flushes them in one         *)
(* transaction; attribute changes of loaded objects stay dirty likewise.   *)

EmptySession == [new |-> <<>>, dirty |-> <<>>]

\* Session.add for each object of objs, in order.
\* Two cost rows hold the same record (the key and the timestamps aside).
SameRecord(a, b) ==
    /\ a.account_id = b.account_id /\ a.service_name = b.service_name
    /\ a.cost = b.cost /\ a.start_date = b.start_date /\ a.end_date = b.end_date
    /\ a.date_range_type = b.date_range_type /\ a.currency = b.currency

\* An add that skips a cost record the table already holds.
add_unless_stored(s, objs) ==
    LET Fresh(o) == o.tbl # "aws_cost_data"
                      \/ \A i \in 1..Len(aws_cost_data) : ~SameRecord(aws_cost_data[i], o.row)
    IN  [s EXCEPT !.new = @ \o SelectSeq(objs, Fresh)]

\* self.db.add(obj) for each object in turn.
add(s, objs) == [s EXCEPT !.new = @ \o objs]

\* A rollback that leaves the pending objects in the session.
rollback_keeps_pending(s) == s

\* Session.rollback(): pending and dirty objects are discarded.
rollback(s) == EmptySession

\* The flush at commit succeeds when the database is reachable and every
\* pending row satisfies the table's constraints.
FlushOK(s, dbDown) ==
    /\ ~dbDown
    /\ \A i \in 1..Len(s.new) : NotNullOK(s.new[i])

\* created_at / updated_at = Column(DateTime, default=func.now()): the time of
\* the inserting transaction.
Stamp(tbl) ==
    IF tbl \in {"cost_forecasts", "chat_history"}
    THEN [created_at |-> now]
    ELSE [created_at |-> now, updated_at |-> now]

RowsOf(s, tbl) ==
    LET Mine(o) == o.tbl = tbl
        objs == SelectSeq(s.new, Mine)
    IN  [i \in 1..Len(objs) |-> objs[i].row @@ Stamp(tbl)]

\* A dirty object replaces the committed row with the same primary key.
ApplyDirty(rows, dirty) ==
    [i \in 1..Len(rows) |->
        IF \E j \in 1..Len(dirty) : dirty[j].id = rows[i].id
        THEN LET j == CHOOSE j \in 1..Len(dirty) :
                          /\ dirty[j].id = rows[i].id
                          /\ \A k \in (j+1)..Len(dirty) : dirty[k].id # rows[i].id
             IN  dirty[j]
        ELSE rows[i]]

\* Session.commit() of a session whose flush succeeds.
commit(s) ==
    /\ aws_cost_data' = aws_cost_data \o RowsOf(s, "aws_cost_data")
    /\ cost_forecasts' = cost_forecasts \o RowsOf(s, "cost_forecasts")
    /\ cost_recommendations' = cost_recommendations \o RowsOf(s, "cost_recommendations")
    /\ chat_history' = chat_history \o RowsOf(s, "chat_history")
    /\ user_settings' = ApplyDirty(user_settings, s.dirty) \o RowsOf(s, "user_settings")
    /\ session' = EmptySession

\* An except clause that rolls back and then returns instead of re-raising.
ExceptOfWrite_swallows(s) ==
    [session |-> rollback(s), outcome |-> "returned", rolled_back |-> TRUE]

\* What a write operation does in its except clause, given the session at
\* the point of failure: self.db.rollback(); logger.error(...); raise.
ExceptOfWrite(s) ==
    [session |-> rollback(s), outcome |-> "raised", rolled_back |-> TRUE]

\* The common shape of the five write operations.  s1 is the session after
\* the statements of the try block that ran before commit, raisedEarly says
\* that one of them raised; otherwise commit runs.  Any exception goes to the
\* except clause.
WriteCall(op, s1, raisedEarly, dbDown, args) ==
    LET failed == raisedEarly \/ ~FlushOK(s1, dbDown)
        ex == ExceptOfWrite(s1)
        built == SubSeq(s1.new, Len(session.new) + 1, Len(s1.new))
    IN  /\ now' = now + 1
        /\ next_id' = next_id + Len(built)
        /\ writes' = Append(writes, [op |-> op, ok |-> ~failed,
                                      ids |-> {built[i].row.id : i \in 1..Len(built)}])
        /\ IF failed
           THEN /\ UNCHANGED tables
                /\ session' = ex.session
                /\ last' = [op |-> op, args |-> args, failed |-> TRUE,
                            outcome |-> ex.outcome, rolled_back |-> ex.rolled_back,
                            result |-> <<>>]
           ELSE /\ commit(s1)
                /\ last' = [op |-> op, args |-> args, failed |-> FALSE,
                            outcome |-> "returned", rolled_back |-> FALSE,
                            result |-> <<>>]

\* An except clause that re-raises the failure of the query.
ExceptOfRead_raises == [outcome |-> "raised", result |-> <<>>]

\* What a read operation does in its except clause: logger.error(...);
\* return [] (get_user_settings: return None).
ExceptOfRead == [outcome |-> "returned", result |-> <<>>]

\* The common shape of the six read operations: the query and the
\* conversion of its rows run inside try; nothing is written.
ReadCall(op, queryFails, result, args) ==
    /\ UNCHANGED storeVars
    /\ last' = IF queryFails
               THEN [op |-> op, args |-> args, failed |-> TRUE,
                     outcome |-> ExceptOfRead.outcome, rolled_back |-> FALSE,
                     result |-> ExceptOfRead.result]
               ELSE [op |-> op, args |-> args, failed |-> FALSE,
                     outcome |-> "returned", rolled_back |-> FALSE,
                     result |-> result]

\* The items of a batch that the for loop reaches before an item raises.
FirstBad(items) ==
    IF \E i \in 1..Len(items) : ~IsDict(items[i])
    THEN CHOOSE i \in 1..Len(items) :
            /\ ~IsDict(items[i])
            /\ \A j \in 1..(i-1) : IsDict(items[j])
    ELSE 0

Reached(items) ==
    IF FirstBad(items) = 0 THEN items ELSE SubSeq(items, 1, FirstBad(items) - 1)

\* The objects a bulk write builds and adds: one per reached item.
Built(tbl, Ctor(_, _), items) ==
    [i \in 1..Len(Reached(items)) |->
        [tbl |-> tbl, row |-> Ctor(items[i], next_id + i - 1)]]

-----------------------------------------------------------------------------
(* Inputs *)

\* One more call of a caller.
Step == ops > 0 /\ ops' = ops - 1

\* A call of the store alone leaves the other components as they are.
StoreOnly == UNCHANGED <<aws, llm, app>>

Account == "default"

\* Items of the store specification: a complete dict, a dict without the
\* service key (its row violates NOT NULL at the flush) and a non-dict.
CostItems ==
    {[account_id |-> Account, service |-> "A", cost |-> 10, start_date |-> 1, end_date |-> 2,
      currency |-> "USD"],
     [account_id |-> Account, cost |-> 5, start_date |-> 1, end_date |-> 1],
     NotADict}

-----------------------------------------------------------------------------
(* database/data_access.py: DataAccess *)

save_cost_data(cost_data, dbDown) ==
    WriteCall("save_cost_data",
              add(session, Built("aws_cost_data", AWSCostData, cost_data)),
              FirstBad(cost_data) # 0, dbDown, [items |-> cost_data])

SaveCostData(Items) ==
    /\ Step
    /\ StoreOnly
    /\ \E cost_data \in SeqsUpTo(Items, MaxBatch), dbDown \in BOOLEAN :
        save_cost_data(cost_data, dbDown)


ForecastItems ==
    {[account_id |-> Account, service_name |-> "A", forecast_date |-> 3, forecasted_cost |-> 7,
      model_version |-> "aws"],
     [account_id |-> Account, service_name |-> "A", forecasted_cost |-> 7],
     NotADict}

save_forecast(forecasts, dbDown) ==
    WriteCall("save_forecast",
              add(session, Built("cost_forecasts", CostForecast, forecasts)),
              FirstBad(forecasts) # 0, dbDown, [items |-> forecasts])

SaveForecast ==
    /\ Step
    /\ StoreOnly
    /\ \E forecasts \in SeqsUpTo(ForecastItems, MaxBatch), dbDown \in BOOLEAN :
        save_forecast(forecasts, dbDown)

RecommendationItems ==
    {[account_id |-> Account, resource_id |-> "i-1", service_name |-> "Amazon EC2",
      recommendation_type |-> "Right Size", description |-> "downsize",
      potential_savings |-> 30],
     [account_id |-> Account, service_name |-> "Amazon S3",
      recommendation_type |-> "Storage Class Change", description |-> "move",
      potential_savings |-> 0, status |-> "dismissed"],
     NotADict}

save_recommendations(recommendations, dbDown) ==
    WriteCall("save_recommendations",
              add(session, Built("cost_recommendations", CostRecommendation, recommendations)),
              FirstBad(recommendations) # 0, dbDown, [items |-> recommendations])

SaveRecommendations ==
    /\ Step
    /\ StoreOnly
    /\ \E recommendations \in SeqsUpTo(RecommendationItems, MaxBatch), dbDown \in BOOLEAN :
        save_recommendations(recommendations, dbDown)

-----------------------------------------------------------------------------
(* Chat history.  A session id reaches the store as a string and is parsed *)
(* by uuid.UUID: the parse ignores letter case, so two spellings name one  *)
(* UUID, and a malformed string raises ValueError.  str(uuid) is the       *)
(* canonical lower-case spelling.                                          *)

SessionIds == {"s1", "S1", "s2", "not-a-uuid"}

uuid_UUID(session_id) ==
    CASE session_id \in {"s1", "S1"} -> 1
      [] session_id = "s2" -> 2
      [] OTHER -> NoneNum          \* ValueError

str_uuid(u) == IF u = 1 THEN "s1" ELSE "s2"

Queries == {"Q1", "Q2"}
Responses == {"R1", None}

ChatHistory(session_uuid, user_query, assistant_response, llm_model, tokens_used, id) ==
    [id |-> id, session_id |-> session_uuid, user_query |-> user_query,
     assistant_response |-> assistant_response, llm_model |-> llm_model,
     tokens_used |-> tokens_used]

save_chat_history(session_id, user_query, assistant_response, llm_model, tokens_used, dbDown) ==
    LET session_uuid == uuid_UUID(session_id)
        bad == session_uuid = NoneNum
        chat_entry == ChatHistory(session_uuid, user_query, assistant_response,
                                  llm_model, tokens_used, next_id)
        s1 == IF bad THEN session
              ELSE add(session, <<[tbl |-> "chat_history", row |-> chat_entry]>>)
    IN  WriteCall("save_chat_history", s1, bad, dbDown,
                  [session_id |-> session_id, user_query |-> user_query,
                   assistant_response |-> assistant_response])

SaveChatHistory ==
    /\ Step
    /\ StoreOnly
    /\ \E session_id \in SessionIds, user_query \in Queries,
       assistant_response \in Responses, dbDown \in BOOLEAN :
        save_chat_history(session_id, user_query, assistant_response,
                          "TinyLlama", NoneNum, dbDown)

-----------------------------------------------------------------------------
(* User settings *)

Users == {"alice", "bob"}

\* The mapped attributes of a UserSettings object (hasattr is true of them).
UserSettingsAttrs ==
    {"id", "user_id", "preferred_llm", "budget_alerts", "custom_dashboards",
     "created_at", "updated_at"}

UserSettings(user_id, settings, id) ==
    [id |-> id, user_id |-> user_id,
     preferred_llm |-> Get(settings, "preferred_llm", "local"),
     budget_alerts |-> Get(settings, "budget_alerts", None),
     custom_dashboards |-> Get(settings, "custom_dashboards", None)]

\* An update that rebuilds the settings columns from the call alone, as the
\* create branch does, resetting the columns the call does not supply.
UpdateSettings_resets(existing, settings) ==
    [a \in DOMAIN existing |->
        IF a = "updated_at" THEN now
        ELSE IF a \in {"preferred_llm", "budget_alerts", "custom_dashboards"}
        THEN Get(settings, a, IF a = "preferred_llm" THEN "local" ELSE None)
        ELSE existing[a]]

\* for key, value in settings.items(): if hasattr(obj, key): setattr(obj, key, value)
\* followed by obj.updated_at = datetime.now()
UpdateSettings(existing, settings) ==
    [a \in DOMAIN existing |->
        IF a = "updated_at" THEN now
        ELSE IF a \in DOMAIN settings /\ a \in UserSettingsAttrs THEN settings[a]
        ELSE existing[a]]

\* query(UserSettings).filter(user_id == user_id): the committed rows of the user.
SettingsOf(user_id) == {user_settings[i] : i \in {j \in 1..Len(user_settings) :
                                                     user_settings[j].user_id = user_id}}

\* failAt: "none", "query" (the SELECT raises) or "commit" (the COMMIT raises).
\* .first() without ORDER BY returns any one of the matching rows.
save_user_settings(user_id, settings, failAt) ==
    LET found == SettingsOf(user_id)
        ghost == [user_id |-> user_id, settings |-> settings]
    IN  IF failAt = "query"
        THEN WriteCall("save_user_settings", session, TRUE, FALSE, ghost)
        ELSE IF found # {}
        THEN \E existing_settings \in found :
                WriteCall("save_user_settings",
                          [session EXCEPT !.dirty =
                               Append(@, UpdateSettings(existing_settings, settings))],
                          FALSE, failAt = "commit", ghost)
        ELSE WriteCall("save_user_settings",
                       add(session, <<[tbl |-> "user_settings",
                                       row |-> UserSettings(user_id, settings, next_id)]>>),
                       FALSE, failAt = "commit", ghost)

\* Settings dicts: the dict built by the settings form of display_settings
\* (backend and budget alerts), partial dicts, the empty dict, and a dict with
\* a key that is no attribute of UserSettings.
SettingsInputs ==
    {[preferred_llm |-> "azure", budget_alerts |-> "on100"],
     [preferred_llm |-> "github"],
     [budget_alerts |-> "off"],
     [custom_dashboards |-> "layoutA", theme |-> "dark"],
     [preferred_llm |-> "local", custom_dashboards |-> "layoutB"],
     <<>>}

SaveUserSettings(dicts) ==
    /\ Step
    /\ StoreOnly
    /\ \E user_id \in Users, settings \in dicts, failAt \in {"none", "query", "commit"} :
        save_user_settings(user_id, settings, failAt)

-----------------------------------------------------------------------------
(* Read operations.  ORDER BY leaves the order of rows with equal keys to  *)
(* the database: every order that respects the keys is a possible result.  *)

MaxLimit == 2        \* largest limit passed to a limited read
Days == 1..2         \* dates passed to the range reads

\* The orderings of S in which no element comes after one it must precede.
Ordered(S, Before(_, _)) ==
    {p \in Perms(S) : \A i, j \in 1..Cardinality(S) : i < j => ~Before(p[j], p[i])}

\* .limit(n).all() of an ordered result.
Limit(rows, n) == SubSeq(rows, 1, Min(n, Len(rows)))

\* func.min over the currency codes of a group (text order).
CurrencyOrder == <<"EUR", "USD">>
MinCurrency(C) ==
    CurrencyOrder[CHOOSE i \in 1..Len(CurrencyOrder) :
                      /\ CurrencyOrder[i] \in C
                      /\ \A j \in 1..(i-1) : CurrencyOrder[j] \notin C]

\* strftime('%Y-%m-%d %H:%M:%S') of a timestamp: the sub-second part is dropped.
TicksPerSecond == 2
strftime_seconds(t) == t \div TicksPerSecond

InRange(start_date, end_date) ==
    LET Test(r) == r.start_date >= start_date /\ r.end_date <= end_date
    IN  SelectSeq(aws_cost_data, Test)

\* GROUP BY service_name over the rows the filter keeps, in scan order.
ServiceTotalsOf(rows) ==
        {LET Mine(r) == r.service_name = sv
             g == SelectSeq(rows, Mine)
         IN  [service |-> sv, total_cost |-> SumBy(g, "cost"),
              currency |-> MinCurrency({g[i].currency : i \in 1..Len(g)})]
         : sv \in {rows[i].service_name : i \in 1..Len(rows)}}

ServiceTotals(start_date, end_date) == ServiceTotalsOf(InRange(start_date, end_date))

\* order_by(desc('total_cost'))
TotalBefore(a, b) == a.total_cost > b.total_cost

get_cost_by_service(start_date, end_date, queryFails) ==
        \E results \in Ordered(ServiceTotals(start_date, end_date), TotalBefore) :
            ReadCall("get_cost_by_service", queryFails, results,
                     [start_date |-> start_date, end_date |-> end_date])

DayTotals(start_date, end_date) ==
    LET rows == InRange(start_date, end_date)
    IN  {LET Mine(r) == r.start_date = d
             g == SelectSeq(rows, Mine)
         IN  [date |-> d, total_cost |-> SumBy(g, "cost"),
              currency |-> MinCurrency({g[i].currency : i \in 1..Len(g)})]
         : d \in {rows[i].start_date : i \in 1..Len(rows)}}

get_cost_by_day(start_date, end_date, queryFails) ==
    LET Before(a, b) == a.date < b.date                      \* order_by('day')
    IN  \E results \in Ordered(DayTotals(start_date, end_date), Before) :
            ReadCall("get_cost_by_day", queryFails, results,
                     [start_date |-> start_date, end_date |-> end_date])

\* float(x) if x else None
FloatOrNone(x) == IF x = NoneNum \/ x = 0 THEN NoneNum ELSE x

get_latest_forecasts(limit, queryFails) ==
    LET Before(a, b) == a.created_at > b.created_at          \* order_by(desc(created_at))
        Out(r) == [account_id |-> r.account_id, service_name |-> r.service_name,
                   forecast_date |-> r.forecast_date, forecasted_cost |-> r.forecasted_cost,
                   confidence_level |-> FloatOrNone(r.confidence_level),
                   model_version |-> r.model_version,
                   created_at |-> strftime_seconds(r.created_at)]
    IN  \E results \in Ordered(Range(cost_forecasts), Before) :
            ReadCall("get_latest_forecasts", queryFails,
                     [i \in 1..Min(limit, Len(results)) |-> Out(results[i])],
                     [limit |-> limit])

\* ORDER BY potential_savings DESC: PostgreSQL puts NULL first in a descending order.
\* An ascending order of the savings.
SavingsBefore_ascending(a, b) ==
    /\ a.potential_savings # NoneNum /\ b.potential_savings # NoneNum
    /\ a.potential_savings < b.potential_savings

SavingsBefore(a, b) ==
    \/ a.potential_savings = NoneNum /\ b.potential_savings # NoneNum
    \/ /\ a.potential_savings # NoneNum /\ b.potential_savings # NoneNum
       /\ a.potential_savings > b.potential_savings

get_open_recommendations(queryFails) ==
    LET open == {r \in Range(cost_recommendations) : r.status = "open"}
        Out(r) == [id |-> r.id, account_id |-> r.account_id, resource_id |-> r.resource_id,
                   service_name |-> r.service_name,
                   recommendation_type |-> r.recommendation_type,
                   description |-> r.description,
                   potential_savings |-> FloatOrNone(r.potential_savings),
                   status |-> r.status,
                   created_at |-> strftime_seconds(r.created_at)]
    IN  \E results \in Ordered(open, SavingsBefore) :
            ReadCall("get_open_recommendations", queryFails,
                     [i \in 1..Len(results) |-> Out(results[i])], <<>>)

\* An ascending order: the oldest turn first.
ChatBefore_ascending(a, b) == a.created_at < b.created_at

\* order_by(desc(ChatHistory.created_at))
ChatBefore(a, b) == a.created_at > b.created_at

\* A malformed session id raises inside try and is answered like a failed query.
get_chat_history(session_id, limit, queryFails) ==
    LET session_uuid == uuid_UUID(session_id)
        mine == {r \in Range(chat_history) : r.session_id = session_uuid}
        Out(r) == [id |-> r.id, session_id |-> str_uuid(r.session_id),
                   user_query |-> r.user_query,
                   assistant_response |-> r.assistant_response,
                   llm_model |-> r.llm_model, tokens_used |-> r.tokens_used,
                   created_at |-> strftime_seconds(r.created_at)]
    IN  \E results \in Ordered(mine, ChatBefore) :
            ReadCall("get_chat_history", queryFails \/ session_uuid = NoneNum,
                     [i \in 1..Min(limit, Len(results)) |-> Out(results[i])],
                     [session_id |-> session_id, limit |-> limit])

get_user_settings(user_id, queryFails) ==
    LET found == SettingsOf(user_id)
        Out(r) == [id |-> r.id, user_id |-> r.user_id, preferred_llm |-> r.preferred_llm,
                   budget_alerts |-> r.budget_alerts,
                   custom_dashboards |-> r.custom_dashboards,
                   created_at |-> strftime_seconds(r.created_at),
                   updated_at |-> strftime_seconds(r.updated_at)]
    IN  IF found = {}
        THEN ReadCall("get_user_settings", queryFails, <<>>, [user_id |-> user_id])
        ELSE \E result \in found :
                ReadCall("get_user_settings", queryFails, <<Out(result)>>,
                         [user_id |-> user_id])

GetCostByService ==
    /\ Step
    /\ StoreOnly
    /\ \E start_date \in Days, end_date \in Days, queryFails \in BOOLEAN :
        get_cost_by_service(start_date, end_date, queryFails)

GetCostByDay ==
    /\ Step
    /\ StoreOnly
    /\ \E start_date \in Days, end_date \in Days, queryFails \in BOOLEAN :
        get_cost_by_day(start_date, end_date, queryFails)

GetLatestForecasts ==
    /\ Step
    /\ StoreOnly
    /\ \E limit \in 0..MaxLimit, queryFails \in BOOLEAN : get_latest_forecasts(limit, queryFails)

GetOpenRecommendations ==
    /\ Step
    /\ StoreOnly
    /\ \E queryFails \in BOOLEAN : get_open_recommendations(queryFails)

GetChatHistory ==
    /\ Step
    /\ StoreOnly
    /\ \E session_id \in SessionIds, limit \in 0..MaxLimit, queryFails \in BOOLEAN :
        get_chat_history(session_id, limit, queryFails)

GetUserSettings ==
    /\ Step
    /\ StoreOnly
    /\ \E user_id \in Users, queryFails \in BOOLEAN : get_user_settings(user_id, queryFails)

-----------------------------------------------------------------------------
(* utils/aws_cost_manager.py: AWSCostManager.  The provider (Cost Explorer) *)
(* answers a request with a response or fails with a message.  Amounts    *)
(* travel as decimal strings and are parsed by float().                   *)

MaxBuckets == 2      \* time buckets per provider response
MaxGroups == 2       \* groups per time bucket

Today == 2

\* float() of a decimal string of the provider.
float(str) ==
    CASE str = "-3" -> 0 - 3
      [] str = "0" -> 0
      [] str = "7" -> 7
      [] str = "25" -> 25

\* Groups of a response grouped by one dimension, and by two.  A credit or
\* refund makes the amount of a group negative.
Groups1 ==
    {[Keys |-> <<"A">>, Amount |-> "25", Unit |-> "USD"],
     [Keys |-> <<"B">>, Amount |-> "-3", Unit |-> "USD"],
     [Keys |-> <<"A">>, Amount |-> "0", Unit |-> "USD"]}

Groups2 ==
    {[Keys |-> <<"A", "BoxUsage">>, Amount |-> "25", Unit |-> "USD", Usage |-> "7"],
     [Keys |-> <<"B", "Requests">>, Amount |-> "-3", Unit |-> "USD", Usage |-> "0"],
     [Keys |-> <<"A", "Requests">>, Amount |-> "0", Unit |-> "USD", Usage |-> "25"]}

\* The responses to a request for start_date..end_date: consecutive daily
\* buckets from start_date on, each with some groups.
ResponsesFor(start_date, groups) ==
    {[i \in 1..Len(gs) |-> [Start |-> start_date + i - 1, End |-> start_date + i,
                            Groups |-> gs[i]]]
     : gs \in SeqsUpTo(SeqsUpTo(groups, MaxGroups), MaxBuckets)}

ProviderMessages == {"ThrottlingException", "EndpointConnectionError"}

\* The loops with the buckets taken last to first.
RECURSIVE Concat_reversed(_)
Concat_reversed(ss) == IF ss = <<>> THEN <<>> ELSE Concat_reversed(Tail(ss)) \o ss[1]

\* results.append(...) over the buckets in response order.
RECURSIVE Concat(_)
Concat(ss) == IF ss = <<>> THEN <<>> ELSE ss[1] \o Concat(Tail(ss))

\* The state of a manager that was never constructed.
\* pending is the answer the provider holds ready for the next cost request
\* of the record specification (<<>> elsewhere).
NoClient == [client |-> FALSE, op |-> "none", failed |-> FALSE, outcome |-> "none",
             message |-> None, result |-> <<>>, requests |-> 0, pending |-> <<>>]

\* A constructor that is content with one of the two credentials.
AWSCostManager_init_either(access_key, secret_key) ==
    IF ~(access_key \/ secret_key)
    THEN [NoClient EXCEPT !.op = "__init__", !.failed = TRUE, !.outcome = "raised",
                          !.message = "AWS credentials not found"]
    ELSE [NoClient EXCEPT !.client = TRUE, !.op = "__init__", !.outcome = "returned"]

\* AWSCostManager.__init__: both credentials are required.
AWSCostManager_init(access_key, secret_key) ==
    IF ~(access_key /\ secret_key)
    THEN [NoClient EXCEPT !.op = "__init__", !.failed = TRUE, !.outcome = "raised",
                          !.message = "AWS credentials not found"]
    ELSE [NoClient EXCEPT !.client = TRUE, !.op = "__init__", !.outcome = "returned"]

\* except ClientError / except Exception of the four provider operations:
\* logger.error(...); raise.
ExceptOfFetch(op, message) ==
    [client |-> TRUE, op |-> op, failed |-> TRUE, outcome |-> "raised",
     message |-> message, result |-> <<>>, requests |-> 1, pending |-> <<>>]

Returned(op, result, requests) ==
    [client |-> TRUE, op |-> op, failed |-> FALSE, outcome |-> "returned",
     message |-> None, result |-> result, requests |-> requests, pending |-> <<>>]

\* The nested loops over response['ResultsByTime'] and its Groups.
ServiceRecords(response) ==
    Concat([t \in 1..Len(response) |->
              [g \in 1..Len(response[t].Groups) |->
                 [date |-> response[t].Start,
                  service |-> response[t].Groups[g].Keys[1],
                  cost |-> float(response[t].Groups[g].Amount),
                  currency |-> response[t].Groups[g].Unit]]])

RegionRecords(response) ==
    Concat([t \in 1..Len(response) |->
              [g \in 1..Len(response[t].Groups) |->
                 [date |-> response[t].Start,
                  region |-> response[t].Groups[g].Keys[1],
                  cost |-> float(response[t].Groups[g].Amount),
                  currency |-> response[t].Groups[g].Unit]]])

DetailedRecords(response) ==
    Concat([t \in 1..Len(response) |->
              [g \in 1..Len(response[t].Groups) |->
                 [start_date |-> response[t].Start,
                  end_date |-> response[t].End,
                  service |-> response[t].Groups[g].Keys[1],
                  usage_type |-> response[t].Groups[g].Keys[2],
                  cost |-> float(response[t].Groups[g].Amount),
                  usage_quantity |-> float(response[t].Groups[g].Usage),
                  currency |-> response[t].Groups[g].Unit]]])

\* provider: [ok |-> TRUE, response |-> ...] or [ok |-> FALSE, message |-> ...]
aws_get_cost_by_service(provider) ==
    IF provider.ok
    THEN Returned("get_cost_by_service", ServiceRecords(provider.response), 1)
    ELSE ExceptOfFetch("get_cost_by_service", provider.message)

aws_get_cost_by_region(provider) ==
    IF provider.ok
    THEN Returned("get_cost_by_region", RegionRecords(provider.response), 1)
    ELSE ExceptOfFetch("get_cost_by_region", provider.message)

aws_get_detailed_cost_data(provider) ==
    IF provider.ok
    THEN Returned("get_detailed_cost_data", DetailedRecords(provider.response), 1)
    ELSE ExceptOfFetch("get_detailed_cost_data", provider.message)

\* The forecast answers of the provider for today..today+days.
ForecastResponses(days) ==
    {[Start |-> Today, End |-> Today + days, Total |-> [Amount |-> total, Unit |-> "USD"],
      ForecastResultsByTime |-> points]
     : total \in {"0", "25"},
       points \in SeqsUpTo({[Start |-> Today, MeanValue |-> "25"],
                            [Start |-> Today + 1, MeanValue |-> "7"]}, MaxBuckets)}

aws_get_cost_forecast(provider) ==
    IF provider.ok
    THEN Returned("get_cost_forecast",
                  <<[start |-> provider.response.Start,
                     end |-> provider.response.End,
                     mean_forecast |-> float(provider.response.Total.Amount),
                     currency |-> provider.response.Total.Unit,
                     forecasted_values |->
                        [i \in 1..Len(provider.response.ForecastResultsByTime) |->
                           [date |-> provider.response.ForecastResultsByTime[i].Start,
                            amount |-> float(provider.response.ForecastResultsByTime[i].MeanValue)]]]>>,
                  1)
    ELSE ExceptOfFetch("get_cost_forecast", provider.message)

\* The simulated recommendations of get_cost_optimization_recommendations.
SimulatedRecommendations ==
    <<[resourceId |-> "i-1234567890abcdef0", service |-> "Amazon EC2",
       recommendation_type |-> "Right Size", description |-> "downsize",
       potential_savings |-> 30],
      [resourceId |-> "s3-bucket-name", service |-> "Amazon S3",
       recommendation_type |-> "Storage Class Change", description |-> "move",
       potential_savings |-> 15]>>

\* get_cost_optimization_recommendations: boto3.client('costoptimizer', ...)
\* is created inside try and no request is sent through it; when creating it
\* raises, the except clause logs and returns [].
aws_get_cost_optimization_recommendations(provider) ==
    IF provider.ok
    THEN Returned("get_cost_optimization_recommendations", SimulatedRecommendations, 0)
    ELSE [client |-> TRUE, op |-> "get_cost_optimization_recommendations",
          failed |-> TRUE, outcome |-> "returned", message |-> None,
          result |-> <<>>, requests |-> 0, pending |-> <<>>]

Failures == {[ok |-> FALSE, message |-> msg] : msg \in ProviderMessages}

Answers(responses) == {[ok |-> TRUE, response |-> r] : r \in responses}

BillingOnly == UNCHANGED <<storeVars, last, llm, app>>

NewCostManager ==
    /\ Step
    /\ BillingOnly
    /\ \E access_key \in BOOLEAN, secret_key \in BOOLEAN :
          aws' = AWSCostManager_init(access_key, secret_key)

FetchCostByService ==
    /\ Step
    /\ BillingOnly
    /\ aws.client
    /\ \E start_date \in Days, end_date \in Days :
          /\ start_date <= end_date
          /\ \E provider \in Failures \cup Answers(ResponsesFor(start_date, Groups1)) :
                aws' = aws_get_cost_by_service(provider)

FetchCostByRegion ==
    /\ Step
    /\ BillingOnly
    /\ aws.client
    /\ \E start_date \in Days, end_date \in Days :
          /\ start_date <= end_date
          /\ \E provider \in Failures \cup Answers(ResponsesFor(start_date, Groups1)) :
                aws' = aws_get_cost_by_region(provider)

FetchDetailedCostData ==
    /\ Step
    /\ BillingOnly
    /\ aws.client
    /\ \E start_date \in Days, end_date \in Days :
          /\ start_date <= end_date
          /\ \E provider \in Failures \cup Answers(ResponsesFor(start_date, Groups2)) :
                aws' = aws_get_detailed_cost_data(provider)

FetchForecast ==
    /\ Step
    /\ BillingOnly
    /\ aws.client
    /\ \E days \in 1..2 :
          \E provider \in Failures \cup Answers(ForecastResponses(days)) :
             aws' = aws_get_cost_forecast(provider)

FetchRecommendations ==
    /\ Step
    /\ BillingOnly
    /\ aws.client
    /\ \E provider \in Failures \cup {[ok |-> TRUE]} :
          aws' = aws_get_cost_optimization_recommendations(provider)

\* A fetch that receives the answer the provider holds ready.
RecordGroups1 ==
    {[Keys |-> <<"A">>, Amount |-> "25", Unit |-> "USD"],
     [Keys |-> <<"B">>, Amount |-> "-3", Unit |-> "EUR"]}

RecordGroups2 ==
    {[Keys |-> <<"A", "BoxUsage">>, Amount |-> "25", Unit |-> "USD", Usage |-> "7"],
     [Keys |-> <<"B", "Requests">>, Amount |-> "-3", Unit |-> "EUR", Usage |-> "0"]}

\* The answers to a request grouped by one dimension, and by two.
PendingAnswers ==
    {[dimensions |-> 1, response |-> r] : r \in ResponsesFor(1, RecordGroups1)}
      \cup {[dimensions |-> 2, response |-> r] : r \in ResponsesFor(1, RecordGroups2)}

Receive(fetched) == aws' = [fetched EXCEPT !.pending = aws.pending]

ReceiveCostByService ==
    /\ Step /\ BillingOnly
    /\ aws.client /\ aws.pending.dimensions = 1
    /\ Receive(aws_get_cost_by_service([ok |-> TRUE, response |-> aws.pending.response]))

ReceiveCostByRegion ==
    /\ Step /\ BillingOnly
    /\ aws.client /\ aws.pending.dimensions = 1
    /\ Receive(aws_get_cost_by_region([ok |-> TRUE, response |-> aws.pending.response]))

ReceiveDetailedCostData ==
    /\ Step /\ BillingOnly
    /\ aws.client /\ aws.pending.dimensions = 2
    /\ Receive(aws_get_detailed_cost_data([ok |-> TRUE, response |-> aws.pending.response]))

-----------------------------------------------------------------------------
(* utils/local_llm_manager.py, utils/azure_openai_manager.py and            *)
(* utils/github_openai_manager.py: the analysis backends.  A backend object *)
(* exists once its constructor returned; client says that it holds a usable *)
(* API client (a loaded model for the local backend), tokenizer that the    *)
(* local backend holds a tokenizer.  A call ends by returning a text or a   *)
(* list (items), or by raising; text then holds the message.                *)

Backends == {"local", "azure", "github"}

\* No completion was received by a JSON-mode request.
NoCompletion == [ok |-> FALSE, message |-> None]

\* No question was translated and executed.
NoRun == [ok |-> FALSE, at |-> "none", message |-> None]

\* received is the completion the model gave to the last request that reached
\* it and ran the outcome of translating and executing the last question
\* (ghosts); db, chain and callback are the query components of a
\* LangChainManager.
NoBackend == [kind |-> "none", built |-> FALSE, client |-> FALSE, tokenizer |-> FALSE,
              op |-> "none", outcome |-> "none", text |-> None, items |-> <<>>,
              received |-> NoCompletion, ran |-> NoRun,
              db |-> FALSE, chain |-> FALSE, callback |-> FALSE]

Constructed(kind, client, tokenizer) ==
    [NoBackend EXCEPT !.kind = kind, !.built = TRUE, !.client = client,
                      !.tokenizer = tokenizer, !.op = "__init__", !.outcome = "returned"]

ConstructorRaised(kind, message) ==
    [NoBackend EXCEPT !.kind = kind, !.op = "__init__", !.outcome = "raised",
                      !.text = message]

\* The environment a constructor meets.
LocalEnvs == [tokenizer_ok : BOOLEAN, model_ok : BOOLEAN, fallback_ok : BOOLEAN]
AzureEnvs == [credentials : BOOLEAN, client_ok : BOOLEAN]
GitHubEnvs == [token : BOOLEAN, client_ok : BOOLEAN]

\* LocalLLMManager.__init__: the tokenizer and then the model are loaded in a
\* try block; when either load raises, the except clause loads the model
\* alone once more and raises RuntimeError when that fails too.  The
\* tokenizer is set only if its own load succeeded.
LocalLLMManager_init(env) ==
    IF env.tokenizer_ok /\ env.model_ok THEN Constructed("local", TRUE, TRUE)
    ELSE IF env.fallback_ok THEN Constructed("local", TRUE, env.tokenizer_ok)
    ELSE ConstructorRaised("local", "Failed to load the model")

\* AzureOpenAIManager.__init__: raises ValueError unless the key, the
\* endpoint and the deployment name are all set; a failure of the client
\* constructor is logged and re-raised.
AzureOpenAIManager_init(env) ==
    IF ~env.credentials
    THEN ConstructorRaised("azure", "Azure OpenAI credentials not found")
    ELSE IF ~env.client_ok
    THEN ConstructorRaised("azure", "Error initializing Azure OpenAI client")
    ELSE Constructed("azure", TRUE, FALSE)

\* A constructor that raises without a token, as the Azure one does.
GitHubOpenAIManager_init_raises(env) ==
    IF ~env.token THEN ConstructorRaised("github", "GitHub token not found")
    ELSE Constructed("github", env.client_ok, FALSE)

\* GitHubOpenAIManager.__init__: without a token, or when the client
\* constructor raises, self.client = None and the constructor returns.
GitHubOpenAIManager_init(env) ==
    Constructed("github", env.token /\ env.client_ok, FALSE)

\* What the model behind a backend does with one request.
ApiErrors == {"403", "404", "429", "timeout"}
Completions == {[ok |-> TRUE, text |-> "analysis"]}
                  \cup {[ok |-> FALSE, message |-> e] : e \in ApiErrors}

ReturnedText(obj, op, text) ==
    [obj EXCEPT !.op = op, !.outcome = "returned", !.text = text, !.items = <<>>,
                !.received = NoCompletion, !.ran = NoRun]

ReturnedList(obj, op, items) ==
    [obj EXCEPT !.op = op, !.outcome = "returned", !.text = None, !.items = items,
                !.received = NoCompletion, !.ran = NoRun]

RaisedBy(obj, op, message) ==
    [obj EXCEPT !.op = op, !.outcome = "raised", !.text = message, !.items = <<>>,
                !.received = NoCompletion, !.ran = NoRun]

\* --- LocalLLMManager ---

LocalGenerations == {[ok |-> TRUE, text |-> "analysis"],
                     [ok |-> FALSE, message |-> "out of memory"]}

\* generate_response: tokenizing and generating run inside try; the except
\* clause logs and re-raises.  Without a tokenizer the first statement raises
\* AttributeError.
local_generate_response(obj, generation) ==
    IF ~obj.tokenizer THEN RaisedBy(obj, "generate_response", "AttributeError")
    ELSE IF generation.ok THEN ReturnedText(obj, "generate_response", generation.text)
    ELSE RaisedBy(obj, "generate_response", generation.message)

\* analyze_cost_data: return self.generate_response(prompt) inside try;
\* except returns f"Error analyzing cost data: {e}".
local_analyze_cost_data(obj, generation) ==
    LET r == local_generate_response(obj, generation)
    IN  IF r.outcome = "raised"
        THEN ReturnedText(obj, "analyze_cost_data", "Error analyzing cost data: " \o r.text)
        ELSE [r EXCEPT !.op = "analyze_cost_data"]

\* generate_cost_insights: the same shape with its own message.
local_generate_cost_insights(obj, generation) ==
    LET r == local_generate_response(obj, generation)
    IN  IF r.outcome = "raised"
        THEN ReturnedText(obj, "generate_cost_insights",
                          "Error generating cost insights: " \o r.text)
        ELSE [r EXCEPT !.op = "generate_cost_insights"]

\* --- GitHubOpenAIManager ---

GitHubNotInitialized ==
    "GitHub OpenAI client not initialized. Check GITHUB_TOKEN environment variable."

\* The message generate_response returns for a failed request.
GitHubErrorText(e) ==
    CASE e = "403" -> "Access denied to GitHub OpenAI model"
      [] e = "404" -> "Model not found"
      [] e = "429" -> "Rate limit exceeded for GitHub OpenAI API"
      [] OTHER -> "Error using GitHub OpenAI: " \o e

\* generate_response: an error string without a client; otherwise one
\* request (its completion is kept in received), whose failure is turned
\* into an error string.
github_generate_response(obj, completion) ==
    IF ~obj.client THEN ReturnedText(obj, "generate_response", GitHubNotInitialized)
    ELSE IF completion.ok
    THEN [ReturnedText(obj, "generate_response", completion.text)
            EXCEPT !.received = completion]
    ELSE [ReturnedText(obj, "generate_response", GitHubErrorText(completion.message))
            EXCEPT !.received = completion]

\* An analyze_cost_data that raises when the backend holds no client.
github_analyze_cost_data_raises(obj, completion) ==
    IF ~obj.client THEN RaisedBy(obj, "analyze_cost_data", GitHubNotInitialized)
    ELSE [github_generate_response(obj, completion) EXCEPT !.op = "analyze_cost_data"]

\* analyze_cost_data: return self.generate_response(prompt, max_length=1500)
github_analyze_cost_data(obj, completion) ==
    [github_generate_response(obj, completion) EXCEPT !.op = "analyze_cost_data"]

github_generate_cost_insights(obj, completion) ==
    [github_generate_response(obj, completion) EXCEPT !.op = "generate_cost_insights"]

\* --- AzureOpenAIManager ---

\* generate_cost_analysis: one request; except logs and re-raises.
azure_generate_cost_analysis(obj, completion) ==
    IF completion.ok THEN ReturnedText(obj, "generate_cost_analysis", completion.text)
    ELSE RaisedBy(obj, "generate_cost_analysis", completion.message)

\* A recommendation as the prompt of generate_cost_recommendations asks for it.
GeneratedRecommendation ==
    [resource_id |-> "i-1", service_name |-> "Amazon EC2",
     recommendation_type |-> "Right Size", description |-> "downsize",
     potential_savings |-> 25]

\* A recommendation of the model that carries a status of its own.
StatusedRecommendation == [status |-> "implemented"] @@ GeneratedRecommendation

\* The content of a JSON-mode completion: text that json.loads rejects, an
\* object without the key recommendations, or an object with it.
AzureContents ==
    {[json |-> FALSE],
     [json |-> TRUE, doc |-> [advice |-> <<>>]],
     [json |-> TRUE, doc |-> [recommendations |-> <<>>]],
     [json |-> TRUE, doc |-> [recommendations |-> <<GeneratedRecommendation>>]],
     [json |-> TRUE, doc |-> [recommendations |-> <<StatusedRecommendation>>]],
     [json |-> TRUE, doc |-> [recommendations |-> <<[description |-> "downsize"]>>]],
     [json |-> TRUE, doc |-> [recommendations |-> <<NotADict>>]]}

AzureCompletions == {[ok |-> TRUE, content |-> c] : c \in AzureContents}
                       \cup {[ok |-> FALSE, message |-> e] : e \in ApiErrors}

\* generate_cost_recommendations: request, json.loads and the key lookup run
\* inside try; except logs and returns [].
azure_generate_cost_recommendations(obj, completion) ==
    IF ~completion.ok \/ ~completion.content.json
    THEN ReturnedList(obj, "generate_cost_recommendations", <<>>)
    ELSE IF "recommendations" \in DOMAIN completion.content.doc
    THEN ReturnedList(obj, "generate_cost_recommendations",
                      completion.content.doc.recommendations)
    ELSE ReturnedList(obj, "generate_cost_recommendations", <<>>)

\* generate_cost_forecast: request and json.loads run inside try; the parsed
\* document is returned as it is; except logs and re-raises.
azure_generate_cost_forecast(obj, completion) ==
    IF ~completion.ok
    THEN RaisedBy(obj, "generate_cost_forecast", completion.message)
    ELSE IF ~completion.content.json
    THEN RaisedBy(obj, "generate_cost_forecast", "JSONDecodeError")
    ELSE ReturnedList(obj, "generate_cost_forecast", <<completion.content.doc>>)

\* --- LangChainManager ---

\* What the process offers a LangChainManager: SQLDatabase imported and
\* connected, create_sql_query_chain imported, get_openai_callback imported,
\* the Azure credentials set and AzureChatOpenAI constructed.
LangChainEnvs == [sqldatabase : BOOLEAN, chain : BOOLEAN, callback : BOOLEAN,
                  credentials : BOOLEAN]

\* LangChainManager.__init__: every failure is logged; self.db and self.llm
\* stay None.
LangChainManager_init(env) ==
    [Constructed("langchain", env.credentials, FALSE)
        EXCEPT !.db = env.sqldatabase, !.chain = env.chain, !.callback = env.callback]

\* What translating a question and executing the query can do: the model
\* request fails, the database rejects the query, or rows come back.
SqlRuns ==
    {[ok |-> FALSE, at |-> "invoke", message |-> "429"],
     [ok |-> FALSE, at |-> "run", message |-> "syntax error"],
     [ok |-> TRUE, rows |-> <<>>],
     [ok |-> TRUE, rows |-> <<[service_name |-> "A", total_cost |-> 25]>>]}

\* create_sql_chain: the exception it raises, or "ok".
create_sql_chain(obj) ==
    IF ~obj.chain \/ ~obj.db THEN "ImportError"
    ELSE IF ~obj.client THEN "ValueError"
    ELSE "ok"

SqlUnavailable ==
    [error |-> "SQL functionality not available. Check LangChain installation."]

\* execute_sql_query: the list it returns.
execute_sql_query(obj, run) ==
    IF ~obj.chain \/ ~obj.db \/ ~obj.callback THEN <<SqlUnavailable>>
    ELSE IF create_sql_chain(obj) # "ok" THEN <<>>
    ELSE IF ~run.ok THEN <<>>
    ELSE run.rows

langchain_execute_sql_query(obj, run) ==
    [ReturnedList(obj, "execute_sql_query", execute_sql_query(obj, run))
        EXCEPT !.ran = run]

NoDataText == "No data found for the query."

\* query_and_analyze: the results of execute_sql_query, then the analysis of
\* the model; except returns "Error analyzing data: ...".
query_and_analyze(obj, run, completion) ==
    LET results == execute_sql_query(obj, run)
        Answer(text) == [ReturnedText(obj, "query_and_analyze", text)
                            EXCEPT !.items = results, !.ran = run]
    IN  IF results = <<>> THEN Answer(NoDataText)
        ELSE IF ~obj.callback THEN Answer("Error analyzing data: TypeError")
        ELSE IF ~obj.client THEN Answer("Error analyzing data: AttributeError")
        ELSE [Answer(IF completion.ok THEN completion.text
                     ELSE "Error analyzing data: " \o completion.message)
                EXCEPT !.received = completion]

\* The horizon written into the forecast prompt of create_cost_forecast_chain.
PromptForecastDays == 30

\* historical_data_query: the persisted cost rows of the trailing 90 days
\* (every day of Days lies inside them), summed per account, service and day.
HistoricalDataQuery ==
    LET rows == aws_cost_data
        Key(r) == <<r.account_id, r.service_name, r.start_date>>
    IN  {LET Mine(r) == Key(r) = k
         IN  [account_id |-> k[1], service_name |-> k[2], date |-> k[3],
              total_cost |-> SumBy(SelectSeq(rows, Mine), "cost")]
         : k \in {Key(rows[i]) : i \in 1..Len(rows)}}

\* The request forecast_chain.invoke sends to self.llm.
ForecastRequest ==
    [backend |-> "azure", method |-> "generate_cost_forecast",
     days |-> PromptForecastDays, historical_data |-> HistoricalDataQuery]

\* The forecast chain reaches the model: self.llm is set, get_openai_callback
\* is callable, and self.db.run returns the history.
ForecastRequestSent(obj, runFails) ==
    obj.client /\ obj.callback /\ obj.db /\ ~runFails

\* LangChainManager.generate_cost_forecast: except returns
\* "Error generating forecast: ...".
langchain_generate_cost_forecast(obj, runFails, completion) ==
    LET Answer(text) == ReturnedText(obj, "generate_cost_forecast", text)
        Error(message) == Answer("Error generating forecast: " \o message)
    IN  IF ~obj.client THEN Error("Azure OpenAI LLM not initialized.")
        ELSE IF ~obj.callback THEN Error("TypeError")
        ELSE IF ~obj.db THEN Error("AttributeError")
        ELSE IF runFails THEN Error("OperationalError")
        ELSE [(IF completion.ok THEN Answer(completion.text)
               ELSE Error(completion.message))
                EXCEPT !.received = completion]

\* The methods each class defines.
Methods(kind) ==
    CASE kind \in {"local", "github"} ->
            {"generate_response", "analyze_cost_data", "generate_cost_insights"}
      [] kind = "azure" ->
            {"generate_cost_analysis", "generate_cost_recommendations",
             "generate_cost_forecast"}
      [] OTHER -> {}

\* The three operations of the backend interface, and the method of a class
\* that carries each of them (None: the class has no such method).
InterfaceOps == {"generate", "analyze_cost_data", "summarize_insights"}

MethodFor(kind, operation) ==
    LET name == CASE operation = "generate" -> "generate_response"
                  [] operation = "analyze_cost_data" ->
                        IF kind = "azure" THEN "generate_cost_analysis"
                        ELSE "analyze_cost_data"
                  [] operation = "summarize_insights" -> "generate_cost_insights"
    IN  IF name \in Methods(kind) THEN name ELSE None

\* obj.<name>(...): looking up a method the class does not define raises
\* AttributeError.
Invoke(obj, operation, completion) ==
    LET name == MethodFor(obj.kind, operation)
    IN  CASE name = None -> RaisedBy(obj, operation, "AttributeError")
          [] obj.kind = "local" /\ name = "generate_response" ->
                local_generate_response(obj, completion)
          [] obj.kind = "local" /\ name = "analyze_cost_data" ->
                local_analyze_cost_data(obj, completion)
          [] obj.kind = "local" /\ name = "generate_cost_insights" ->
                local_generate_cost_insights(obj, completion)
          [] obj.kind = "github" /\ name = "generate_response" ->
                github_generate_response(obj, completion)
          [] obj.kind = "github" /\ name = "analyze_cost_data" ->
                github_analyze_cost_data(obj, completion)
          [] obj.kind = "github" /\ name = "generate_cost_insights" ->
                github_generate_cost_insights(obj, completion)
          [] obj.kind = "azure" /\ name = "generate_cost_analysis" ->
                azure_generate_cost_analysis(obj, completion)

\* cost_data[:10]
ContextLimit == 10

\* str(item): one line of the context.
Str(item) == [str |-> item]

\* f"\n... and {len(cost_data) - 10} more items"
MoreItems(count) == [more |-> count]

\* The context with the remainder line from the limit itself on.
CostDataStr_from_limit(cost_data) ==
    LET n == Len(cost_data)
    IN  [i \in 1..Min(n, ContextLimit) |-> Str(cost_data[i])]
          \o (IF n >= ContextLimit THEN <<MoreItems(n - ContextLimit)>> ELSE <<>>)

\* cost_data_str: the lines '\n'.join puts together, and the remainder line.
CostDataStr(cost_data) ==
    LET n == Len(cost_data)
    IN  [i \in 1..Min(n, ContextLimit) |-> Str(cost_data[i])]
          \o (IF n > ContextLimit THEN <<MoreItems(n - ContextLimit)>> ELSE <<>>)

\* The prompt analyze_cost_data of the local and of the GitHub backend hands
\* to generate_response, and the user message of generate_cost_analysis.
AnalysisPrompt(kind, cost_data, query) ==
    IF kind = "azure"
    THEN [role |-> "user", context |-> CostDataStr(cost_data), question |-> query]
    ELSE [prompt |-> "analyze", context |-> CostDataStr(cost_data), question |-> query]

\* What the engine behind a backend may answer to one request.
CompletionsOf(kind) == IF kind = "local" THEN LocalGenerations ELSE Completions

BackendOnly == UNCHANGED <<storeVars, last, aws, app>>

NewLocalLLMManager ==
    /\ Step /\ BackendOnly
    /\ \E env \in LocalEnvs : llm' = LocalLLMManager_init(env)

NewAzureOpenAIManager ==
    /\ Step /\ BackendOnly
    /\ \E env \in AzureEnvs : llm' = AzureOpenAIManager_init(env)

NewGitHubOpenAIManager ==
    /\ Step /\ BackendOnly
    /\ \E env \in GitHubEnvs : llm' = GitHubOpenAIManager_init(env)

GenerateResponse ==
    /\ Step /\ BackendOnly
    /\ llm.built
    /\ \E completion \in CompletionsOf(llm.kind) : llm' = Invoke(llm, "generate", completion)

AnalyzeCostData ==
    /\ Step /\ BackendOnly
    /\ llm.built
    /\ \E completion \in CompletionsOf(llm.kind) :
          llm' = Invoke(llm, "analyze_cost_data", completion)

GenerateCostInsights ==
    /\ Step /\ BackendOnly
    /\ llm.built
    /\ \E completion \in CompletionsOf(llm.kind) :
          llm' = Invoke(llm, "summarize_insights", completion)

GenerateCostRecommendations ==
    /\ Step /\ BackendOnly
    /\ llm.built /\ llm.kind = "azure"
    /\ \E completion \in AzureCompletions :
          llm' = [azure_generate_cost_recommendations(llm, completion)
                    EXCEPT !.received = completion]

NewLangChainManager ==
    /\ Step /\ BackendOnly
    /\ \E env \in LangChainEnvs : llm' = LangChainManager_init(env)

ExecuteSqlQuery ==
    /\ Step /\ BackendOnly
    /\ llm.built /\ llm.kind = "langchain"
    /\ \E run \in SqlRuns : llm' = langchain_execute_sql_query(llm, run)

QueryAndAnalyze ==
    /\ Step /\ BackendOnly
    /\ llm.built /\ llm.kind = "langchain"
    /\ \E run \in SqlRuns, completion \in Completions :
          llm' = query_and_analyze(llm, run, completion)

GenerateCostForecast ==
    /\ Step /\ BackendOnly
    /\ llm.built /\ llm.kind = "azure"
    /\ \E completion \in AzureCompletions :
          llm' = [azure_generate_cost_forecast(llm, completion)
                    EXCEPT !.received = completion]

-----------------------------------------------------------------------------
(* app/app.py: the user's actions.  app holds st.session_state            *)
(* (authenticated, preferred_llm, messages), the elements the last action *)
(* rendered (ui) and the trace of that action: the backends it            *)
(* constructed, the backend methods it called, and whether the backend    *)
(* failed at construction or during the call.                             *)

SessionId == "s1"    \* st.session_state.session_id = str(uuid.uuid4())

NoTrace == [instantiated |-> <<>>, called |-> <<>>, backend_failed |-> FALSE]

init_session_state ==
    [authenticated |-> FALSE, preferred_llm |-> "local", messages |-> <<>>,
     action |-> "none", ui |-> <<>>, trace |-> NoTrace]

Shown(kind, text) == [kind |-> kind, text |-> text]

AppOnly == UNCHANGED <<storeVars, last, aws, llm>>

\* The login form of display_sidebar.
Login ==
    /\ Step /\ AppOnly
    /\ ~app.authenticated
    /\ \E aws_access_key \in BOOLEAN, aws_secret_key \in BOOLEAN :
          app' = IF aws_access_key /\ aws_secret_key
                 THEN [app EXCEPT !.authenticated = TRUE, !.action = "login",
                                  !.ui = <<>>, !.trace = NoTrace]
                 ELSE [app EXCEPT !.action = "login", !.trace = NoTrace,
                                  !.ui = <<Shown("error", "Please enter both keys")>>]

\* The radio "Choose LLM for Analysis" of display_sidebar.
SelectLLM ==
    /\ Step /\ AppOnly
    /\ \E choice \in Backends :
          app' = [app EXCEPT !.preferred_llm = choice, !.action = "select",
                             !.ui = <<>>, !.trace = NoTrace]

\* The backend display_chat_assistant takes for a selection: if "local",
\* elif "github", else Azure.
ChatBackend(preferred_llm) ==
    IF preferred_llm = "local" THEN "local"
    ELSE IF preferred_llm = "github" THEN "github"
    ELSE "azure"

\* The backend display_recommendations takes: if "local", elif "azure",
\* else GitHub.
RecommendationBackend(preferred_llm) ==
    IF preferred_llm = "local" THEN "local"
    ELSE IF preferred_llm = "azure" THEN "azure"
    ELSE "github"

EnvsOf(kind) ==
    CASE kind = "local" -> LocalEnvs
      [] kind = "azure" -> AzureEnvs
      [] kind = "github" -> GitHubEnvs

Construct(kind, env) ==
    CASE kind = "local" -> LocalLLMManager_init(env)
      [] kind = "azure" -> AzureOpenAIManager_init(env)
      [] kind = "github" -> GitHubOpenAIManager_init(env)

\* The backend failed at construction: its constructor raised.
ConstructionFailed(obj) == obj.outcome = "raised"

\* The call on a constructed backend met a failure: the backend was left
\* without a client or a tokenizer, or the request failed.
CallFailed(obj, completion) ==
    \/ ~obj.client
    \/ obj.kind = "local" /\ ~obj.tokenizer
    \/ ~completion.ok

\* llm_model of the chat turn that is saved.
ModelName(kind) ==
    CASE kind = "local" -> "TinyLlama"
      [] kind = "github" -> "GitHub OpenAI"
      [] kind = "azure" -> "Azure OpenAI"

\* "Error" in response or "Access denied" in response
MentionsError(response) ==
    response \in {GitHubErrorText(e) : e \in {"403", "timeout"}}

\* The answers of the provider the user actions meet.
AppGroups1 == <<[Keys |-> <<"A">>, Amount |-> "25", Unit |-> "USD"]>>
AppGroups2 == <<[Keys |-> <<"A", "BoxUsage">>, Amount |-> "25", Unit |-> "USD", Usage |-> "7"]>>

ChatAnswers ==
    Failures \cup Answers({<<>>, <<[Start |-> 1, End |-> 2, Groups |-> AppGroups1]>>})

DetailAnswers ==
    Failures \cup Answers({<<>>, <<[Start |-> 1, End |-> 2, Groups |-> AppGroups2]>>})

\* display_chat_assistant for a submitted prompt.  Everything after the
\* user's message runs inside one try; its except clause shows an error
\* and appends an apology to the messages.  ui holds what the assistant's
\* part of the page shows.
display_chat_assistant(prompt, provider, env, completion, provider2, dbDown) ==
    LET kind == ChatBackend(app.preferred_llm)
        user == [role |-> "user", content |-> prompt]
        Sorry(message) == [role |-> "assistant",
                           content |-> "Sorry, I encountered an error: " \o message]
        Error(message) == Shown("error", "Error generating response: " \o message)
        fetched == aws_get_cost_by_service(provider)
        obj == Construct(kind, env)
        \* the Azure branch constructs the billing client and fetches once more
        fetched2 == IF kind = "azure" THEN aws_get_cost_by_service(provider2) ELSE fetched
        answered == Invoke(obj, "analyze_cost_data", completion)
        built == [NoTrace EXCEPT !.instantiated = <<kind>>,
                                 !.backend_failed = ConstructionFailed(obj)]
        called == [built EXCEPT !.called = <<[backend |-> kind, method |-> answered.op]>>,
                                !.backend_failed = @ \/ CallFailed(obj, completion)]
        Except(message, trace) ==
            app' = [app EXCEPT !.action = "chat", !.trace = trace,
                               !.messages = @ \o <<user, Sorry(message)>>,
                               !.ui = <<Error(message)>>]
    IN  IF fetched.outcome = "raised"
        THEN /\ aws' = fetched
             /\ UNCHANGED <<llm, storeVars, last>>
             /\ Except(fetched.message, NoTrace)
        ELSE IF obj.outcome = "raised"
        THEN /\ aws' = fetched
             /\ llm' = obj
             /\ UNCHANGED <<storeVars, last>>
             /\ Except(obj.text, built)
        ELSE IF fetched2.outcome = "raised"
        THEN /\ aws' = fetched2
             /\ llm' = obj
             /\ UNCHANGED <<storeVars, last>>
             /\ Except(fetched2.message, built)
        ELSE IF answered.outcome = "raised"
        THEN /\ aws' = fetched2
             /\ llm' = answered
             /\ UNCHANGED <<storeVars, last>>
             /\ Except(answered.text, called)
        ELSE /\ aws' = fetched2
             /\ llm' = answered
             /\ save_chat_history(SessionId, prompt, answered.text, ModelName(kind),
                                  NoneNum, dbDown)
             /\ app' = [app EXCEPT
                   !.action = "chat", !.trace = called,
                   !.messages = @ \o <<user, [role |-> "assistant",
                                              content |-> answered.text]>>
                                  \o (IF last'.failed THEN <<Sorry("database")>> ELSE <<>>),
                   !.ui = (IF kind = "github" /\ MentionsError(answered.text)
                           THEN <<Shown("error", answered.text)>> ELSE <<>>)
                          \o <<Shown("markdown", answered.text)>>
                          \o (IF last'.failed THEN <<Error("database")>> ELSE <<>>)]

AskChat ==
    /\ Step
    /\ app.authenticated
    /\ \E prompt \in Queries, provider \in ChatAnswers, dbDown \in BOOLEAN :
          \E env \in EnvsOf(ChatBackend(app.preferred_llm)),
             completion \in CompletionsOf(ChatBackend(app.preferred_llm)),
             provider2 \in (IF ChatBackend(app.preferred_llm) = "azure"
                            THEN ChatAnswers ELSE {provider}) :
             display_chat_assistant(prompt, provider, env, completion, provider2, dbDown)

\* The structured recommendations display_recommendations hard-codes for
\* the local and the GitHub backend.
SimulatedLLMRecommendations ==
    <<[resource_id |-> "i-1234567890abcdef0", service_name |-> "Amazon EC2",
       recommendation_type |-> "Right Size", description |-> "downsize",
       potential_savings |-> 25],
      [resource_id |-> "s3-bucket-name", service_name |-> "Amazon S3",
       recommendation_type |-> "Storage Class Change", description |-> "move",
       potential_savings |-> 15]>>

\* The savings of the first recommendation alone.
TotalSavings_first(recommendations) ==
    IF recommendations = <<>> THEN 0
    ELSE Get(recommendations[1], "potential_savings", 0)

\* sum(rec.get('potential_savings', 0) for rec in recommendations)
RECURSIVE TotalSavings(_)
TotalSavings(recommendations) ==
    IF recommendations = <<>> THEN 0
    ELSE Get(recommendations[1], "potential_savings", 0)
           + TotalSavings(Tail(recommendations))

Metric(value) == [kind |-> "metric", text |-> "Total Potential Savings", value |-> value]

\* The keys an expander of a generated recommendation subscripts.
ExpanderKeys == {"service_name", "recommendation_type", "potential_savings", "description"}

\* The expanders of the recommendations, up to the first one whose keys are
\* missing (KeyError).
Expanders(recommendations, Error(_)) ==
    LET Bad(i) == ~(ExpanderKeys \subseteq DOMAIN recommendations[i])
        n == Len(recommendations)
        stop == IF \E i \in 1..n : Bad(i)
                THEN CHOOSE i \in 1..n : Bad(i) /\ \A j \in 1..(i-1) : ~Bad(j)
                ELSE n + 1
    IN  [i \in 1..(stop - 1) |-> Shown("expander", recommendations[i].description)]
          \o (IF stop <= n THEN <<Error("KeyError")>> ELSE <<>>)

\* display_recommendations with the source "AWS Generated".  The first
\* expander passes the button's label both by position and by keyword
\* (TypeError), which the except clause of the page shows.
display_recommendations_native(provider) ==
    LET answered == aws_get_cost_optimization_recommendations(provider)
        recommendations == answered.result
    IN  /\ aws' = answered
        /\ UNCHANGED <<llm, storeVars, last>>
        /\ app' = [app EXCEPT
              !.action = "recommend_native", !.trace = NoTrace,
              !.ui = IF recommendations # <<>>
                     THEN <<Metric(TotalSavings(recommendations)),
                            Shown("expander", recommendations[1].description),
                            Shown("error", "Error loading recommendations: TypeError")>>
                     ELSE <<Shown("info", "No recommendations available from AWS.")>>]

\* display_recommendations with the source "AI Generated (LLM)".
display_recommendations_ai(provider, env, completion, dbDown) ==
    LET kind == RecommendationBackend(app.preferred_llm)
        Error(message) == Shown("error", "Error loading recommendations: " \o message)
        obj == Construct(kind, env)
        fetched == aws_get_detailed_cost_data(provider)
        answered == IF kind = "azure"
                    THEN azure_generate_cost_recommendations(obj, completion)
                    ELSE Invoke(obj, "summarize_insights", completion)
        insights == IF kind = "azure" THEN <<>>
                    ELSE <<Shown("markdown", answered.text)>>
        recommendations == IF kind = "azure" THEN answered.items
                           ELSE SimulatedLLMRecommendations
        \* rec['account_id'] = account_id
        tagged == [i \in 1..Len(recommendations) |->
                      [account_id |-> Account] @@ recommendations[i]]
        built == [NoTrace EXCEPT !.instantiated = <<kind>>,
                                 !.backend_failed = ConstructionFailed(obj)]
        called == [built EXCEPT !.called = <<[backend |-> kind, method |-> answered.op]>>,
                                !.backend_failed = @ \/ CallFailed(obj, completion)]
        Render(elements, trace) ==
            app' = [app EXCEPT !.action = "recommend_ai", !.ui = elements, !.trace = trace]
    IN  IF obj.outcome = "raised"
        THEN /\ llm' = obj
             /\ UNCHANGED <<aws, storeVars, last>>
             /\ Render(<<Error(obj.text)>>, built)
        ELSE IF fetched.outcome = "raised"
        THEN /\ llm' = obj
             /\ aws' = fetched
             /\ UNCHANGED <<storeVars, last>>
             /\ Render(<<Error(fetched.message)>>, built)
        ELSE IF fetched.result = <<>>
        THEN /\ llm' = obj
             /\ aws' = fetched
             /\ UNCHANGED <<storeVars, last>>
             /\ Render(<<Shown("warning", "No cost data available for analysis.")>>, built)
        ELSE IF \E i \in 1..Len(recommendations) : ~IsDict(recommendations[i])
        THEN /\ llm' = answered
             /\ aws' = fetched
             /\ UNCHANGED <<storeVars, last>>
             /\ Render(insights \o <<Error("TypeError")>>, called)
        ELSE /\ llm' = answered
             /\ aws' = fetched
             /\ save_recommendations(tagged, dbDown)
             /\ Render(insights \o
                       (IF last'.failed THEN <<Error("database")>>
                        ELSE IF recommendations = <<>>
                        THEN <<Shown("info", "No AI-generated recommendations available.")>>
                        ELSE <<Metric(TotalSavings(recommendations))>>
                               \o Expanders(recommendations, Error)),
                       called)

ShowNativeRecommendations ==
    /\ Step
    /\ app.authenticated
    /\ \E provider \in Failures \cup {[ok |-> TRUE]} :
          display_recommendations_native(provider)

ShowGeneratedRecommendations ==
    /\ Step
    /\ app.authenticated
    /\ \E provider \in DetailAnswers, dbDown \in BOOLEAN :
          \E env \in EnvsOf(RecommendationBackend(app.preferred_llm)),
             completion \in (IF RecommendationBackend(app.preferred_llm) = "azure"
                             THEN AzureCompletions
                             ELSE CompletionsOf(RecommendationBackend(app.preferred_llm))) :
             display_recommendations_ai(provider, env, completion, dbDown)

-----------------------------------------------------------------------------
(* app/app.py: display_forecast, method "AWS Cost Explorer" *)

\* n / d rounded to the nearest integer, ties to even (the rounding of
\* f"{x:.1f}" and f"{x:.2f}" after scaling).
RoundDiv(n, d) ==
    LET q == n \div d
        r == n - q * d
    IN  IF 2 * r > d \/ (2 * r = d /\ q % 2 = 1) THEN q + 1 ELSE q

\* a / b of Python: ZeroDivisionError when b = 0.  The quotient is kept
\* with scale units per one.
DivisionError == [error |-> "ZeroDivisionError"]
Divide(a, b, scale) ==
    IF b = 0 THEN DivisionError ELSE [value |-> RoundDiv(a * scale, b)]

\* A guard-free percent change.
PercentChange_unguarded(forecast_total, historical_total) ==
    Divide((forecast_total - historical_total) * 100, historical_total, 10)

\* change_pct = ((forecast_total - historical_total) / historical_total * 100)
\*              if historical_total > 0 else 0, in tenths of a percent.
PercentChange(forecast_total, historical_total) ==
    IF historical_total > 0
    THEN Divide((forecast_total - historical_total) * 100, historical_total, 10)
    ELSE [value |-> 0]

\* The delta of the metric: f"{change_pct:.1f}%" if historical_total > 0
\* else None.
NoDelta == [none |-> TRUE]
DeltaOf(change_pct, historical_total) ==
    IF historical_total > 0 THEN [tenths |-> change_pct.value] ELSE NoDelta

ForecastMetric(label, value, delta) ==
    [kind |-> "metric", text |-> label, value |-> value, delta |-> delta]

\* The slider "Forecast Days" (7..90).
ForecastDays == {7, 30}

\* The answers of the provider to the historical fetch of the page.
HistoryAnswers ==
    Failures \cup Answers({<<>>,
                           <<[Start |-> 1, End |-> 2, Groups |-> AppGroups1]>>,
                           <<[Start |-> 1, End |-> 2, Groups |->
                                <<[Keys |-> <<"A">>, Amount |-> "0", Unit |-> "USD"]>>]>>})

\* display_forecast with the method "AWS Cost Explorer".  Everything runs
\* inside one try whose except clause shows the error; elements rendered
\* before the failure stay on the page.
display_forecast_native(forecast_days, provider, provider2) ==
    LET Error(message) == Shown("error", "Error generating forecast: " \o message)
        answered == aws_get_cost_forecast(provider)
        forecast == answered.result[1]
        forecast_total == forecast.mean_forecast
        fetched == aws_get_cost_by_service(provider2)
        historical == fetched.result
        historical_total == SumBy(historical, "cost")
        change_pct == PercentChange(forecast_total, historical_total)
        daily_avg == Divide(forecast_total, forecast_days, 100)
        subheader == [kind |-> "subheader", days |-> forecast_days]
        first == ForecastMetric("Forecasted Total Cost", forecast_total,
                                DeltaOf(change_pct, historical_total))
        second == ForecastMetric("Previous Period Cost", historical_total, NoDelta)
        third == ForecastMetric("Daily Average", daily_avg.value, NoDelta)
        \* pd.DataFrame([])['date'] raises KeyError
        chart == IF forecast.forecasted_values = <<>> THEN Error("KeyError")
                 ELSE [kind |-> "chart", points |-> Len(forecast.forecasted_values)]
        Render(aws1, elements) ==
            /\ aws' = aws1
            /\ UNCHANGED <<llm, storeVars, last>>
            /\ app' = [app EXCEPT !.action = "forecast_native", !.trace = NoTrace,
                                  !.ui = elements]
    IN  IF answered.outcome = "raised"
        THEN Render(answered, <<Error(answered.message)>>)
        ELSE IF fetched.outcome = "raised"
        THEN Render(fetched, <<subheader, Error(fetched.message)>>)
        ELSE IF change_pct = DivisionError
        THEN Render(fetched, <<subheader, Error(DivisionError.error)>>)
        ELSE Render(fetched, <<subheader, first, second, third, chart>>)

ShowNativeForecast ==
    /\ Step
    /\ app.authenticated
    /\ \E forecast_days \in ForecastDays, provider2 \in HistoryAnswers :
          \E provider \in Failures \cup Answers(ForecastResponses(forecast_days)) :
             display_forecast_native(forecast_days, provider, provider2)

-----------------------------------------------------------------------------
vars == <<aws_cost_data, cost_forecasts, cost_recommendations, chat_history,
          user_settings, session, now, next_id, writes, last, aws, llm, app, ops>>

InitStore ==
    /\ aws_cost_data = <<>>
    /\ cost_forecasts = <<>>
    /\ cost_recommendations = <<>>
    /\ chat_history = <<>>
    /\ user_settings = <<>>
    /\ session = EmptySession
    /\ now = 1
    /\ next_id = 1
    /\ writes = <<>>

NoCall == [op |-> "none", args |-> <<>>, failed |-> FALSE, outcome |-> "returned",
           rolled_back |-> FALSE, result |-> <<>>]

InitRest ==
    /\ last = NoCall
    /\ aws = NoClient
    /\ llm = NoBackend
    /\ app = init_session_state

Init ==
    /\ InitStore
    /\ InitRest
    /\ ops = MaxOps

\* The settings dicts of the store specification: the form's dict, a partial
\* dict and one with an unknown key.
StoreSettingsDicts ==
    {[preferred_llm |-> "azure", budget_alerts |-> "on100"],
     [custom_dashboards |-> "layoutA", theme |-> "dark"]}

Next ==
    \/ SaveCostData(CostItems)
    \/ SaveForecast
    \/ SaveRecommendations
    \/ SaveChatHistory
    \/ SaveUserSettings(StoreSettingsDicts)
    \/ GetCostByService
    \/ GetCostByDay
    \/ GetLatestForecasts
    \/ GetOpenRecommendations
    \/ GetChatHistory
    \/ GetUserSettings

Spec == Init /\ [][Next]_vars

-----------------------------------------------------------------------------
(* Properties of the store *)

BulkOps == {"save_cost_data", "save_forecast", "save_recommendations"}
WriteOps == BulkOps \cup {"save_chat_history", "save_user_settings"}
ReadOps == {"get_cost_by_service", "get_cost_by_day", "get_latest_forecasts",
            "get_open_recommendations", "get_chat_history", "get_user_settings"}

TableOf(op) ==
    CASE op = "save_cost_data" -> aws_cost_data
      [] op = "save_forecast" -> cost_forecasts
      [] op = "save_recommendations" -> cost_recommendations
      [] op = "save_chat_history" -> chat_history
      [] op = "save_user_settings" -> user_settings

\* The primary keys a read of any table can see.
VisibleIds ==
    UNION {{t[i].id : i \in 1..Len(t)} :
           t \in {aws_cost_data, cost_forecasts, cost_recommendations,
                  chat_history, user_settings}}

\* The column that stores the value submitted under a key of an item.
ColumnOf(key) == IF key = "service" THEN "service_name" ELSE key

Stores(row, item) == \A k \in DOMAIN item : row[ColumnOf(k)] = item[k]

\* C1: a bulk write is all-or-nothing.  No row built by a failed
\* save_cost_data, save_forecast or save_recommendations call is ever visible
\* in any table afterwards, whether the failure came while adding items or at
\* commit; every row built by a successful call stays visible in its table,
\* and right after a successful call the table ends with one row per
\* submitted item, in submission order, holding the submitted values.
C1_BatchAtomicity ==
    /\ \A i \in 1..Len(writes) :
          writes[i].op \in BulkOps =>
             IF writes[i].ok
             THEN writes[i].ids \subseteq
                      {TableOf(writes[i].op)[k].id : k \in 1..Len(TableOf(writes[i].op))}
             ELSE writes[i].ids \cap VisibleIds = {}
    /\ (last.op \in BulkOps /\ ~last.failed) =>
          LET t == TableOf(last.op)
              items == last.args.items
              n == Len(items)
          IN  /\ Len(t) >= n
              /\ Cardinality(writes[Len(writes)].ids) = n
              /\ \A k \in 1..n :
                    /\ t[Len(t) - n + k].id \in writes[Len(writes)].ids
                    /\ Stores(t[Len(t) - n + k], items[k])

\* A batch that failed after some of its rows were built, followed by a
\* successful non-empty batch on the same table.
C1_Witness ==
    \E i, j \in 1..Len(writes) :
        /\ i < j
        /\ writes[i].op \in BulkOps /\ ~writes[i].ok /\ writes[i].ids # {}
        /\ writes[j].op = writes[i].op /\ writes[j].ok /\ writes[j].ids # {}

\* C3: a write operation that hits a failure rolls the session back and
\* raises: the call does not return normally, nothing stays pending in the
\* session, and the call is recorded as failed exactly when it raised.
C3_WriteFailureRaises ==
    last.op \in WriteOps =>
        /\ last.failed = ~writes[Len(writes)].ok
        /\ last.failed => /\ last.outcome = "raised"
                          /\ last.rolled_back
                          /\ session = EmptySession
        /\ ~last.failed => last.outcome = "returned"

\* A failed save_chat_history after an earlier successful write.
C3_Witness ==
    /\ last.op = "save_chat_history" /\ last.failed
    /\ \E i \in 1..Len(writes) : writes[i].ok

\* C4: a read operation whose query fails returns the empty result (the
\* empty list; None for get_user_settings) without raising, and no read
\* changes a committed table.
C4_ReadFailureIsEmpty ==
    [][last'.op \in ReadOps =>
          /\ UNCHANGED tables
          /\ last'.failed => (last'.outcome = "returned" /\ last'.result = <<>>)]_vars

\* A failed get_chat_history for a session that has a committed turn.
C4_Witness ==
    /\ last.op = "get_chat_history" /\ last.failed
    /\ last.args.session_id # "not-a-uuid"
    /\ \E i \in 1..Len(chat_history) :
          chat_history[i].session_id = uuid_UUID(last.args.session_id)

-----------------------------------------------------------------------------
(* User settings on their own: calls of save_user_settings and             *)
(* get_user_settings, one after another, with every settings input.        *)

InitSettings ==
    /\ InitStore
    /\ InitRest
    /\ ops = MaxSettingsOps

NextSettings ==
    \/ SaveUserSettings(SettingsInputs)
    \/ GetUserSettings

SpecSettings == InitSettings /\ [][NextSettings]_vars

SettingsFields == {"preferred_llm", "budget_alerts", "custom_dashboards"}

RowIndex(rows, user_id) == {i \in 1..Len(rows) : rows[i].user_id = user_id}

-----------------------------------------------------------------------------
(* Chat history on its own: calls of save_chat_history and                 *)
(* get_chat_history, one after another.                                    *)

InitChat ==
    /\ InitStore
    /\ InitRest
    /\ ops = MaxChatOps

NextChat ==
    \/ SaveChatHistory
    \/ GetChatHistory

SpecChat == InitChat /\ [][NextChat]_vars

\* The committed turns of a session.
TurnsOf(rows, session_uuid) == {r \in Range(rows) : r.session_id = session_uuid}

\* The committed turn a returned item was made from.
TurnOf(rows, item) == CHOOSE r \in Range(rows) : r.id = item.id

\* C10: a successful save_chat_history(S, Q, R) appends one turn of session S
\* with user_query Q and assistant_response R and changes no earlier turn.
\* A successful get_chat_history(S, limit) returns min(limit, number of turns
\* of S) items, each made from a distinct committed turn of S and carrying
\* that turn's user_query and assistant_response, ordered by creation time
\* with the most recent first, and every turn of S left out is older than
\* every turn returned; a turn of another session is never returned.
C10_ChatHistoryRecentFirst ==
    [][/\ (last'.op = "save_chat_history" /\ ~last'.failed) =>
             /\ Len(chat_history') = Len(chat_history) + 1
             /\ SubSeq(chat_history', 1, Len(chat_history)) = chat_history
             /\ LET t == chat_history'[Len(chat_history')]
                IN  /\ t.session_id = uuid_UUID(last'.args.session_id)
                    /\ t.user_query = last'.args.user_query
                    /\ t.assistant_response = last'.args.assistant_response
       /\ (last'.op = "get_chat_history" /\ ~last'.failed) =>
             LET S == uuid_UUID(last'.args.session_id)
                 res == last'.result
                 turns == TurnsOf(chat_history', S)
             IN  /\ Len(res) = Min(last'.args.limit, Cardinality(turns))
                 /\ \A k \in 1..Len(res) :
                       /\ res[k].session_id = str_uuid(S)
                       /\ \E r \in turns :
                             /\ r.id = res[k].id
                             /\ r.user_query = res[k].user_query
                             /\ r.assistant_response = res[k].assistant_response
                 /\ \A k, l \in 1..Len(res) :
                       k < l => TurnOf(chat_history', res[k]).created_at >
                                TurnOf(chat_history', res[l]).created_at
                 /\ \A r \in turns :
                       (\A k \in 1..Len(res) : res[k].id # r.id) =>
                          \A k \in 1..Len(res) :
                             r.created_at < TurnOf(chat_history', res[k]).created_at]_vars

\* A read with limit 1 of a session that has two turns, asked under the
\* upper-case spelling of the session id: it returns the newer turn only.
C10_Witness ==
    /\ last.op = "get_chat_history" /\ ~last.failed
    /\ Cardinality(TurnsOf(chat_history, uuid_UUID(last.args.session_id))) = 2
    /\ last.args.session_id = "S1"
    /\ Len(last.result) = 1
    /\ last.args.limit = 1
    /\ last.result[1].id = chat_history[Len(chat_history)].id

-----------------------------------------------------------------------------
(* The billing client on its own: construction and calls.                  *)

MaxBillingOps == 2

InitBilling ==
    /\ InitStore
    /\ InitRest
    /\ ops = MaxBillingOps

NextBilling ==
    \/ NewCostManager
    \/ FetchCostByService
    \/ FetchCostByRegion
    \/ FetchDetailedCostData
    \/ FetchForecast
    \/ FetchRecommendations

SpecBilling == InitBilling /\ [][NextBilling]_vars

CostFetchOps == {"get_cost_by_service", "get_cost_by_region", "get_detailed_cost_data"}
BillingOps == CostFetchOps \cup {"get_cost_forecast", "get_cost_optimization_recommendations"}

\* C7: every record returned by a cost fetch for a valid range has
\* cost >= 0 and, where it carries a start and an end date,
\* start_date <= end_date.
C7_FetchedCostsNonNegative ==
    (aws.op \in CostFetchOps /\ aws.outcome = "returned") =>
        \A i \in 1..Len(aws.result) :
            /\ aws.result[i].cost >= 0
            /\ "start_date" \in DOMAIN aws.result[i] =>
                  aws.result[i].start_date <= aws.result[i].end_date

\* C8: a billing operation that met a provider or transport failure issued
\* exactly one provider request and raised the failure with the provider's
\* message; it did not return normally.
C8_ProviderFailureRaisedOnce ==
    (aws.op \in BillingOps /\ aws.failed) =>
        /\ aws.requests = 1
        /\ aws.outcome = "raised"
        /\ aws.message \in ProviderMessages

-----------------------------------------------------------------------------
(* The analysis backends on their own *)

MaxBackendOps == 4   \* constructions and calls per behaviour

InitBackend ==
    /\ InitStore
    /\ InitRest
    /\ ops = MaxBackendOps

NextBackend ==
    \/ NewLocalLLMManager
    \/ NewAzureOpenAIManager
    \/ NewGitHubOpenAIManager
    \/ GenerateResponse
    \/ AnalyzeCostData
    \/ GenerateCostInsights
    \/ GenerateCostRecommendations
    \/ GenerateCostForecast

SpecBackend == InitBackend /\ [][NextBackend]_vars

\* The error strings the backends return.
BackendErrorTexts ==
    {GitHubNotInitialized} \cup {GitHubErrorText(e) : e \in ApiErrors}
      \cup {"Error analyzing cost data: " \o m : m \in {"AttributeError", "out of memory"}}
      \cup {"Error generating cost insights: " \o m : m \in {"AttributeError", "out of memory"}}

\* The backend object cannot serve calls.
Unavailable(obj) == ~obj.client \/ (obj.kind = "local" /\ ~obj.tokenizer)

\* C2: no backend constructor raises, and every call on a backend that was
\* left unavailable returns a non-empty error string instead of raising.
C2_ConstructorsNeverRaise ==
    /\ llm.op = "__init__" => llm.outcome = "returned"
    /\ (llm.built /\ Unavailable(llm) /\ llm.op # "__init__") =>
          /\ llm.outcome = "returned"
          /\ llm.text \in BackendErrorTexts

\* The completion is text that json.loads rejects.
Unparseable(completion) == completion.ok /\ ~completion.content.json

\* The completion parses but lacks the key the operation reads.
MissingStructure(completion) ==
    /\ completion.ok /\ completion.content.json
    /\ "recommendations" \notin DOMAIN completion.content.doc

\* C16: when the generative output is unparseable or lacks the expected
\* structure, the recommendation operation and the forecast operation return
\* an empty result and raise nothing.
C16_MalformedOutputYieldsEmpty ==
    /\ (llm.op = "generate_cost_recommendations"
          /\ (Unparseable(llm.received) \/ MissingStructure(llm.received))) =>
            llm.outcome = "returned" /\ llm.items = <<>>
    /\ (llm.op = "generate_cost_forecast" /\ Unparseable(llm.received)) =>
            llm.outcome = "returned" /\ llm.items = <<>>

\* C6: whichever backend was selected, each of the three interface
\* operations (free-form generation, cost-data question answering, insight
\* summarization) can be invoked on it: the class has a method for it.
C6_EveryBackendOffersInterface ==
    \A kind \in Backends :
        (llm.built /\ llm.kind = kind) =>
            \A operation \in InterfaceOps :
                /\ MethodFor(kind, operation) # None
                /\ llm.op = operation => llm.text # "AttributeError"

-----------------------------------------------------------------------------
(* The user actions *)

MaxAppOps == 3       \* user actions per behaviour

InitApp ==
    /\ InitStore
    /\ InitRest
    /\ ops = MaxAppOps

NextApp ==
    \/ Login
    \/ SelectLLM
    \/ AskChat
    \/ ShowNativeRecommendations
    \/ ShowGeneratedRecommendations

SpecApp == InitApp /\ [][NextApp]_vars

\* The user is shown an error: an error element, or a backend's error string
\* rendered as text.
SeesError ==
    \E i \in 1..Len(app.ui) :
        \/ app.ui[i].kind = "error"
        \/ app.ui[i].kind = "markdown" /\ app.ui[i].text \in BackendErrorTexts

\* C5: in a chat question or a generative recommendation request only the
\* selected backend is instantiated and called, and when that backend failed
\* at construction or during the call the user sees an error.
C5_OnlySelectedBackend ==
    app.action \in {"chat", "recommend_ai"} =>
        /\ \A i \in 1..Len(app.trace.instantiated) :
              app.trace.instantiated[i] = app.preferred_llm
        /\ \A i \in 1..Len(app.trace.called) :
              app.trace.called[i].backend = app.preferred_llm
        /\ app.trace.backend_failed => SeesError

\* C14: every recommendation persisted by the generative strategy has the
\* status open, whatever the backend and whatever its output.
C14_GeneratedStatusOpen ==
    \A i \in 1..Len(cost_recommendations) : cost_recommendations[i].status = "open"

\* The recommendations page rendered its savings metric: the generated
\* recommendations were saved and are displayed.
SavedAndDisplayed ==
    /\ app.action = "recommend_ai"
    /\ \E i \in 1..Len(app.ui) : app.ui[i].kind = "metric"

\* C15: for every backend the generative recommendations persisted and
\* displayed are exactly those parsed from the backend's output.
C15_PersistedAreParsed ==
    SavedAndDisplayed =>
        /\ last.op = "save_recommendations"
        /\ last.args.items = [i \in 1..Len(llm.items) |->
                                 [account_id |-> Account] @@ llm.items[i]]
        /\ \A i \in 1..Len(app.ui) :
              app.ui[i].kind = "metric" => app.ui[i].value = TotalSavings(llm.items)

\* The keys of a recommendation that save_recommendations reads.
RecommendationSchema ==
    {"account_id", "resource_id", "service_name", "recommendation_type",
     "description", "potential_savings"}

\* C19: the recommendations of the native and of the generative strategy
\* have one schema (the same keys for resource, service, type, description
\* and savings, and the account), and those of both strategies are persisted.
C19_OneSchemaBothPersisted ==
    /\ (app.action = "recommend_native" /\ aws.result # <<>>) =>
          /\ \A i \in 1..Len(aws.result) :
                RecommendationSchema \subseteq DOMAIN aws.result[i]
          /\ last.op = "save_recommendations"
          /\ ~last.failed
          /\ Len(last.args.items) = Len(aws.result)
    /\ SavedAndDisplayed =>
          /\ last.op = "save_recommendations"
          /\ \A i \in 1..Len(last.args.items) :
                RecommendationSchema \subseteq DOMAIN last.args.items[i]

-----------------------------------------------------------------------------
(* app/app.py: display_forecast, method "AI-Based (LLM)" *)

\* The page reads the daily totals of the trailing 90 days (all of Days) and,
\* when there are any, asks a new LangChainManager for the forecast text.
display_forecast_ai(forecast_days, env, queryFails, runFails, completion) ==
    LET obj == LangChainManager_init(env)
        answered == langchain_generate_cost_forecast(obj, runFails, completion)
        historical == last'.result
        built == [NoTrace EXCEPT !.instantiated = <<"langchain">>]
        called == IF ForecastRequestSent(obj, runFails)
                  THEN [built EXCEPT !.called = <<ForecastRequest>>,
                                     !.backend_failed = ~completion.ok]
                  ELSE [built EXCEPT !.backend_failed = TRUE]
    IN  /\ get_cost_by_day(1, 2, queryFails)
        /\ UNCHANGED aws
        /\ IF historical # <<>>
           THEN /\ llm' = answered
                /\ app' = [app EXCEPT
                      !.action = "forecast_ai", !.trace = called,
                      !.ui = <<[kind |-> "subheader", days |-> forecast_days],
                               Shown("markdown", answered.text)>>]
           ELSE /\ llm' = obj
                /\ app' = [app EXCEPT
                      !.action = "forecast_ai", !.trace = built,
                      !.ui = <<Shown("warning",
                                     "No historical data available for AI-based forecasting.")>>]

ShowGeneratedForecast ==
    /\ Step
    /\ app.authenticated
    /\ \E forecast_days \in ForecastDays, env \in LangChainEnvs,
          queryFails \in BOOLEAN, runFails \in BOOLEAN, completion \in Completions :
          display_forecast_ai(forecast_days, env, queryFails, runFails, completion)

MaxGeneratedOps == 4    \* steps per behaviour of the generative forecast specification

\* The cost records persisted before the forecast is asked for.
HistoryItems ==
    {[account_id |-> Account, service |-> "A", cost |-> 10, start_date |-> 1,
      end_date |-> 2, currency |-> "USD"],
     [account_id |-> Account, service |-> "B", cost |-> 5, start_date |-> 2,
      end_date |-> 2, currency |-> "USD"]}

InitGenerated ==
    /\ InitStore
    /\ InitRest
    /\ ops = MaxGeneratedOps

NextGenerated ==
    \/ Login
    \/ SelectLLM
    \/ SaveCostData(HistoryItems)
    \/ ShowGeneratedForecast

SpecGenerated == InitGenerated /\ [][NextGenerated]_vars

\* C18: the generative forecast sends its request to the backend the caller
\* selected, built from the persisted records of the trailing 90 days, and
\* asks for a forecast over the caller's horizon of N days.
C18_ForecastRequestAsSelected ==
    (app.action = "forecast_ai" /\ last.op = "get_cost_by_day") =>
        \A i \in 1..Len(app.trace.called) :
            /\ app.trace.called[i].backend = app.preferred_llm
            /\ app.trace.called[i].historical_data = HistoricalDataQuery
            /\ \E k \in 1..Len(app.ui) :
                  /\ app.ui[k].kind = "subheader"
                  /\ app.trace.called[i].days = app.ui[k].days

-----------------------------------------------------------------------------
(* app/app.py: get_data_access and display_dashboard *)

\* What a page does outside itself, in the order it does it: a session of
\* get_data_access is acquired (db = next(get_db_session())) and released
\* (finally: db.close()), a DataAccess method runs, a request goes to the
\* billing API.
Acquire == [event |-> "acquire"]
Release == [event |-> "release"]
StoreCall(op) == [event |-> "store", op |-> op]
BillingCall(op) == [event |-> "call", target |-> "billing", op |-> op]

\* for item in service_costs: cost_data_entries.append({...})
cost_data_entries(service_costs) ==
    [i \in 1..Len(service_costs) |->
        [account_id |-> Account, service |-> service_costs[i].service,
         cost |-> service_costs[i].cost,
         start_date |-> service_costs[i].date, end_date |-> service_costs[i].date,
         date_range_type |-> "daily", currency |-> service_costs[i].currency]]

\* The expander "Cost Forecast Preview": its own try/except shows a warning.
ForecastPreview(answered) ==
    IF answered.outcome = "raised"
    THEN <<Shown("warning", "Unable to load forecast: " \o answered.message)>>
    ELSE IF answered.result[1].forecasted_values = <<>>
    THEN <<[kind |-> "write", value |-> answered.result[1].mean_forecast],
           Shown("warning", "Unable to load forecast: KeyError")>>
    ELSE <<[kind |-> "write", value |-> answered.result[1].mean_forecast],
           [kind |-> "chart", points |-> Len(answered.result[1].forecasted_values)]>>

\* max(service_costs, key=lambda x: x['cost']): the record of the greatest
\* cost, the first of them when several have it.
top_service(service_costs) ==
    service_costs[CHOOSE i \in 1..Len(service_costs) :
        /\ \A j \in 1..Len(service_costs) : service_costs[j].cost <= service_costs[i].cost
        /\ \A j \in 1..(i - 1) : service_costs[j].cost < service_costs[i].cost]

\* display_dashboard: two fetches, then inside one get_data_access block the
\* detailed fetch and save_cost_data, then the metrics and the forecast
\* preview.
display_dashboard(provider, provider2, provider3, provider4, dbDown) ==
    LET service == aws_get_cost_by_service(provider)
        region == aws_get_cost_by_region(provider2)
        detailed == aws_get_detailed_cost_data(provider3)
        forecast == aws_get_cost_forecast(provider4)
        service_costs == service.result
        Error(message) == <<Shown("error", "Error loading AWS cost data: " \o message),
                            Shown("error", "Please check your AWS credentials and try again.")>>
        Render(elements, events) ==
            app' = [app EXCEPT !.action = "dashboard", !.ui = elements,
                               !.trace = NoTrace @@ [events |-> events]]
        loaded == <<BillingCall("get_cost_by_service"), BillingCall("get_cost_by_region")>>
        entered == loaded \o <<Acquire, BillingCall("get_detailed_cost_data")>>
        saved == entered \o <<StoreCall("save_cost_data"), Release>>
    IN  /\ llm' = llm
        /\ IF service.outcome = "raised"
           THEN /\ aws' = service
                /\ UNCHANGED <<storeVars, last>>
                /\ Render(Error(service.message), <<loaded[1]>>)
           ELSE IF region.outcome = "raised"
           THEN /\ aws' = region
                /\ UNCHANGED <<storeVars, last>>
                /\ Render(Error(region.message), loaded)
           ELSE IF detailed.outcome = "raised"
           THEN /\ aws' = detailed
                /\ UNCHANGED <<storeVars, last>>
                /\ Render(Error(detailed.message), entered \o <<Release>>)
           ELSE /\ save_cost_data(cost_data_entries(service_costs), dbDown)
                /\ IF last'.failed
                   THEN /\ aws' = detailed
                        /\ Render(Error("database"), saved)
                   ELSE IF service_costs # <<>>
                   THEN /\ aws' = forecast
                        /\ Render(<<[kind |-> "metric", text |-> "Total Cost",
                                      value |-> SumBy(service_costs, "cost")],
                                     [kind |-> "metric", text |-> "Top Service",
                                      value |-> [service |-> top_service(service_costs).service,
                                                 cost |-> top_service(service_costs).cost]],
                                     [kind |-> "metric", text |-> "Services Used",
                                      value |-> Len(service_costs)]>>
                                     \o ForecastPreview(forecast),
                                   saved \o <<BillingCall("get_cost_forecast")>>)
                   ELSE /\ aws' = detailed
                        /\ Render(<<Shown("info",
                                "No cost data available for the selected date range.")>>,
                                saved)

ShowDashboard ==
    /\ Step
    /\ app.authenticated
    /\ \E provider \in ChatAnswers, provider2 \in ChatAnswers, provider3 \in DetailAnswers,
          provider4 \in Failures \cup Answers(ForecastResponses(PromptForecastDays)),
          dbDown \in BOOLEAN :
          display_dashboard(provider, provider2, provider3, provider4, dbDown)

MaxDashboardOps == 3    \* steps per behaviour of the dashboard specification

InitDashboard ==
    /\ InitStore
    /\ InitRest
    /\ ops = MaxDashboardOps

NextDashboard ==
    \/ Login
    \/ ShowDashboard

SpecDashboard == InitDashboard /\ [][NextDashboard]_vars

\* The sessions open after the first k events.
RECURSIVE Held(_, _)
Held(events, k) ==
    IF k = 0 THEN 0
    ELSE Held(events, k - 1)
           + (IF events[k].event = "acquire" THEN 1
              ELSE IF events[k].event = "release" THEN 0 - 1 ELSE 0)

\* C20: in a user action no external call is made while a persistence
\* session is held, and every session acquired through get_data_access has
\* been released when the action ends, also when it raised inside the block.
C20_NoCallWhileSessionHeld ==
    app.action = "dashboard" =>
        LET events == app.trace.events
        IN  /\ \A k \in 1..Len(events) :
                  events[k].event = "call" => Held(events, k) = 0
            /\ Held(events, Len(events)) = 0

-----------------------------------------------------------------------------
(* The query and analysis chain *)

MaxChainOps == 3    \* calls per behaviour of the chain specification

InitChain ==
    /\ InitStore
    /\ InitRest
    /\ ops = MaxChainOps

NextChain ==
    \/ NewLangChainManager
    \/ ExecuteSqlQuery
    \/ QueryAndAnalyze

SpecChain == InitChain /\ [][NextChain]_vars

\* Translating or executing the question failed: a query component is
\* missing, the model is not initialized, or the translation or the query
\* raised.
QueryFailed ==
    \/ ~llm.chain \/ ~llm.db \/ ~llm.callback
    \/ ~llm.client
    \/ ~llm.ran.ok

\* C17: a failure while translating or executing the question makes
\* execute_sql_query return an empty list, so query_and_analyze reports the
\* no-data state without calling the summarizing model; a failure of the
\* summarization returns an error string.
C17_QueryFailureIsNoData ==
    /\ (llm.op = "execute_sql_query" /\ QueryFailed) => llm.items = <<>>
    /\ (llm.op = "query_and_analyze" /\ QueryFailed) =>
          /\ llm.outcome = "returned"
          /\ llm.text = NoDataText
          /\ llm.received = NoCompletion
    /\ (llm.op = "query_and_analyze" /\ llm.received # NoCompletion
          /\ ~llm.received.ok) =>
          /\ llm.outcome = "returned"
          /\ llm.text = "Error analyzing data: " \o llm.received.message

-----------------------------------------------------------------------------
(* The context of a cost-data question *)

MaxRecords == 11     \* cost records handed to analyze_cost_data
MaxContextOps == 1   \* questions per behaviour of the context specification

ContextRecords == {[service |-> "A", cost |-> 25], [service |-> "B", cost |-> 7]}
ContextQueries == {"Which service costs most?", "Why did S3 grow?"}

\* A constructed backend and the question it is about to be asked.
InitContext ==
    /\ InitStore
    /\ last = NoCall
    /\ aws = NoClient
    /\ app = init_session_state
    /\ \E kind \in Backends, cost_data \in SeqsUpTo(ContextRecords, MaxRecords),
          query \in ContextQueries :
          \E env \in EnvsOf(kind) :
             /\ Construct(kind, env).outcome = "returned"
             /\ llm = Construct(kind, env)
                        @@ [asked |-> [cost_data |-> cost_data, query |-> query],
                            sent |-> <<>>]
    /\ ops = MaxContextOps

\* analyze_cost_data(cost_data, query), generate_cost_analysis for Azure.
AnalyzeAsked ==
    /\ Step /\ BackendOnly
    /\ \E completion \in CompletionsOf(llm.kind) :
          llm' = [Invoke(llm, "analyze_cost_data", completion)
                    EXCEPT !.sent = <<AnalysisPrompt(llm.kind, llm.asked.cost_data,
                                                     llm.asked.query)>>]

NextContext == AnalyzeAsked

SpecContext == InitContext /\ [][NextContext]_vars

\* C22: the context built for n cost records holds exactly the first
\* min(n, 10) records in input order, then a line with the count n - 10 if
\* and only if n > 10, and the question is embedded unchanged; the same for
\* every backend.
C22_ContextOfFirstTen ==
    llm.sent # <<>> =>
        LET context == llm.sent[1].context
            cost_data == llm.asked.cost_data
            n == Len(cost_data)
            shown == IF n <= 10 THEN n ELSE 10
        IN  /\ Len(context) = shown + (IF n > 10 THEN 1 ELSE 0)
            /\ \A i \in 1..shown : context[i] = [str |-> cost_data[i]]
            /\ n > 10 => context[shown + 1] = [more |-> n - 10]
            /\ llm.sent[1].question = llm.asked.query

\* Ten records: all of them in the context and no remainder line.
C22_Witness ==
    /\ llm.kind = "github"
    /\ llm.op = "analyze_cost_data"
    /\ Len(llm.asked.cost_data) = 10
    /\ Len(llm.sent[1].context) = 10
    /\ llm.asked.cost_data[1] # llm.asked.cost_data[2]

-----------------------------------------------------------------------------
(* The billing client and the credentials of the process *)

MaxCredentialOps == 4    \* constructions and calls per behaviour

\* os.getenv("AWS_ACCESS_KEY_ID"), os.getenv("AWS_SECRET_ACCESS_KEY"): set or not.
Environs == [access_key : BOOLEAN, secret_key : BOOLEAN]

WithEnviron(manager) == manager @@ [environ |-> aws.environ]

\* AWSCostManager() in the environment of the process.
NewCostManagerFromEnviron ==
    /\ Step /\ BillingOnly
    /\ aws' = WithEnviron(AWSCostManager_init(aws.environ.access_key,
                                              aws.environ.secret_key))

ForecastFromEnviron ==
    /\ Step /\ BillingOnly
    /\ aws.client
    /\ \E days \in ForecastDays :
          \E provider \in Failures \cup Answers(ForecastResponses(days)) :
             aws' = WithEnviron(aws_get_cost_forecast(provider))

RecommendationsFromEnviron ==
    /\ Step /\ BillingOnly
    /\ aws.client
    /\ \E provider \in Failures \cup {[ok |-> TRUE]} :
          aws' = WithEnviron(aws_get_cost_optimization_recommendations(provider))

InitCredentials ==
    /\ InitStore
    /\ last = NoCall
    /\ llm = NoBackend
    /\ app = init_session_state
    /\ \E environ \in Environs : aws = NoClient @@ [environ |-> environ]
    /\ ops = MaxCredentialOps

NextCredentials ==
    \/ NewCostManagerFromEnviron
    \/ ForecastFromEnviron
    \/ RecommendationsFromEnviron

SpecCredentials == InitCredentials /\ [][NextCredentials]_vars

\* C25: without both billing credentials the construction of the billing
\* client raises a configuration error; no client object exists afterwards
\* and no provider client is created or called.
C25_MissingCredentialsRaise ==
    ~(aws.environ.access_key /\ aws.environ.secret_key) =>
        /\ aws.op \in {"none", "__init__"}
        /\ ~aws.client
        /\ aws.requests = 0
        /\ aws.op = "__init__" =>
              /\ aws.outcome = "raised"
              /\ aws.failed
              /\ aws.message = "AWS credentials not found"

C25_Witness ==
    /\ aws.op = "__init__"
    /\ aws.environ.access_key /\ ~aws.environ.secret_key
    /\ aws.outcome = "raised"

-----------------------------------------------------------------------------
(* The displayed total of the savings *)

\* The savings of the first k recommendations added up.
RECURSIVE SavingsOfFirst(_, _)
SavingsOfFirst(recommendations, k) ==
    IF k = 0 THEN 0
    ELSE SavingsOfFirst(recommendations, k - 1)
           + (IF "potential_savings" \in DOMAIN recommendations[k]
              THEN recommendations[k].potential_savings ELSE 0)

\* The savings metrics on the page.
SavingsMetrics == {i \in 1..Len(app.ui) : app.ui[i].kind = "metric"}

\* C24: the displayed total of the potential savings is the sum of
\* potential_savings over exactly the recommendations returned (native) or
\* generated (generative) in the request, and the total is never written to
\* the store: a request writes at most one row per recommendation, each with
\* that recommendation's own savings.
C24_TotalIsSumNeverStored ==
    /\ []((app.action = "recommend_native" /\ aws.result # <<>>) =>
            /\ SavingsMetrics # {}
            /\ \A i \in SavingsMetrics :
                  app.ui[i].value = SavingsOfFirst(aws.result, Len(aws.result)))
    /\ [](SavedAndDisplayed =>
            /\ SavingsMetrics # {}
            /\ \A i \in SavingsMetrics :
                  app.ui[i].value = SavingsOfFirst(last.args.items, Len(last.args.items)))
    /\ [][ /\ app'.action = "recommend_native" => UNCHANGED tables
           /\ (app'.action = "recommend_ai" /\ cost_recommendations' # cost_recommendations) =>
                 /\ Len(cost_recommendations')
                       = Len(cost_recommendations) + Len(last'.args.items)
                 /\ \A k \in 1..Len(last'.args.items) :
                       cost_recommendations'[Len(cost_recommendations) + k].potential_savings
                          = Get(last'.args.items[k], "potential_savings", NoneNum)
                 /\ UNCHANGED <<aws_cost_data, cost_forecasts, chat_history, user_settings>>
         ]_vars

\* The generative page saved two recommendations and shows their total.
C24_Witness ==
    /\ SavedAndDisplayed
    /\ Len(last.args.items) = 2
    /\ \E i \in SavingsMetrics : app.ui[i].value = 40
    /\ Len(cost_recommendations) = 2

-----------------------------------------------------------------------------
(* The listing of open recommendations *)

MaxListed == 3        \* recommendations stored by the listing specification
MaxListingOps == 3    \* calls per behaviour of the listing specification

\* Open recommendations with savings 30, 15 and 0, and a dismissed one with
\* the largest savings.
ListingItems ==
    {[account_id |-> Account, service_name |-> "Amazon EC2",
      recommendation_type |-> "Right Size", description |-> "downsize",
      potential_savings |-> 30],
     [account_id |-> Account, service_name |-> "Amazon S3",
      recommendation_type |-> "Storage Class Change", description |-> "move",
      potential_savings |-> 15, status |-> "open"],
     [account_id |-> Account, service_name |-> "Amazon RDS",
      recommendation_type |-> "Reserved Instance", description |-> "reserve",
      potential_savings |-> 0],
     [account_id |-> Account, service_name |-> "Amazon EBS",
      recommendation_type |-> "Delete", description |-> "unattached",
      potential_savings |-> 50, status |-> "dismissed"]}

SaveListedRecommendations ==
    /\ Step
    /\ StoreOnly
    /\ \E recommendations \in SeqsUpTo(ListingItems, MaxBatch), dbDown \in BOOLEAN :
          /\ Len(cost_recommendations) + Len(recommendations) <= MaxListed
          /\ save_recommendations(recommendations, dbDown)

InitListing ==
    /\ InitStore
    /\ InitRest
    /\ ops = MaxListingOps

NextListing ==
    \/ SaveListedRecommendations
    \/ GetOpenRecommendations

SpecListing == InitListing /\ [][NextListing]_vars

\* get_open_recommendations answered from the table as it stands.
Listed == last.op = "get_open_recommendations" /\ ~last.failed

\* The stored row a returned recommendation was made from.
StoredRecommendation(id) ==
    CHOOSE r \in Range(cost_recommendations) : r.id = id

\* C23: get_open_recommendations returns exactly the persisted
\* recommendations with status open, each once and none with another status,
\* ordered by potential_savings descending.
C23_OpenRecommendationsBySavings ==
    Listed =>
        LET result == last.result
            open == {r \in Range(cost_recommendations) : r.status = "open"}
        IN  /\ Len(result) = Cardinality(open)
            /\ {result[i].id : i \in 1..Len(result)} = {r.id : r \in open}
            /\ \A i \in 1..Len(result) : result[i].status = "open"
            /\ \A i, j \in 1..Len(result) :
                  LET a == StoredRecommendation(result[i].id).potential_savings
                      b == StoredRecommendation(result[j].id).potential_savings
                  IN  (i < j /\ a # NoneNum /\ b # NoneNum) => a >= b

\* Two open recommendations with different savings were listed while a
\* dismissed one is stored.
C23_Witness ==
    /\ Listed
    /\ Len(last.result) = 2
    /\ last.result[1].potential_savings = 30
    /\ last.result[2].potential_savings = 15
    /\ \E r \in Range(cost_recommendations) : r.status = "dismissed"

\* C27: every recommendation saved with status open and savings p >= 0,
\* p = 0 included, is returned by get_open_recommendations with
\* potential_savings equal to p.
C27_SavingsRoundTrip ==
    Listed =>
        \A i \in 1..Len(last.result) :
            LET p == StoredRecommendation(last.result[i].id).potential_savings
            IN  p # NoneNum => last.result[i].potential_savings = p

-----------------------------------------------------------------------------
(* Ingestion *)

MaxIngestOps == 3    \* save_cost_data calls per behaviour of the ingestion specification

\* The records of one window: ingesting it again submits the same dicts.
IngestItems ==
    {[account_id |-> Account, service |-> "A", cost |-> 10, start_date |-> 1,
      end_date |-> 1, currency |-> "USD"],
     [account_id |-> Account, service |-> "B", cost |-> 5, start_date |-> 1,
      end_date |-> 1, currency |-> "USD"]}

InitIngest ==
    /\ InitStore
    /\ InitRest
    /\ ops = MaxIngestOps

NextIngest == SaveCostData(IngestItems)

SpecIngest == InitIngest /\ [][NextIngest]_vars

\* C21: ingestion never updates or deletes a persisted cost record: a
\* save_cost_data call leaves every stored row in place and unchanged, and a
\* successful call adds one row per submitted record, also for records the
\* table already holds (no deduplication).
C21_IngestionOnlyAppends ==
    [][ /\ Len(aws_cost_data') >= Len(aws_cost_data)
        /\ SubSeq(aws_cost_data', 1, Len(aws_cost_data)) = aws_cost_data
        /\ (last'.op = "save_cost_data" /\ ~last'.failed) =>
              /\ Len(aws_cost_data') = Len(aws_cost_data) + Len(last'.args.items)
              /\ \A i \in 1..Len(last'.args.items) :
                    LET row == aws_cost_data'[Len(aws_cost_data) + i]
                        item == last'.args.items[i]
                    IN  /\ row.service_name = item.service
                        /\ row.cost = item.cost
                        /\ row.start_date = item.start_date ]_vars

\* The same window was ingested three times and each of its records is
\* stored three times.
C21_Witness ==
    /\ Len(writes) = 3
    /\ \A w \in 1..3 : writes[w].op = "save_cost_data" /\ writes[w].ok
    /\ Len(aws_cost_data) = 6
    /\ \A i \in 1..2 : /\ SameRecord(aws_cost_data[i], aws_cost_data[i + 2])
                        /\ SameRecord(aws_cost_data[i], aws_cost_data[i + 4])
    /\ ~SameRecord(aws_cost_data[1], aws_cost_data[2])

-----------------------------------------------------------------------------
(* Aggregation by service *)

MaxAggregateOps == 3 \* calls per behaviour of the aggregation specification

\* Records of one day: a large and a small amount of service A, and a
\* small amount of service B.
AggregateItems ==
    {[account_id |-> Account, service |-> "A", cost |-> 2 ^ FloatMantissaBits,
      start_date |-> 1, end_date |-> 1, currency |-> "USD"],
     [account_id |-> Account, service |-> "A", cost |-> 1,
      start_date |-> 1, end_date |-> 1, currency |-> "USD"],
     [account_id |-> Account, service |-> "B", cost |-> 1,
      start_date |-> 1, end_date |-> 1, currency |-> "USD"]}

InitAggregate ==
    /\ InitStore
    /\ InitRest
    /\ ops = MaxAggregateOps

NextAggregate ==
    \/ SaveCostData(AggregateItems)
    \/ GetCostByService

SpecAggregate == InitAggregate /\ [][NextAggregate]_vars

\* The sum of a column in exact arithmetic.
RECURSIVE ExactSum(_, _)
ExactSum(rows, f) == IF rows = <<>> THEN 0 ELSE rows[1][f] + ExactSum(Tail(rows), f)

\* The same rows in another insertion order.
Reorderings(rows) == Perms(Range(rows))

\* C11: get_cost_by_service returns one entry per distinct service of the
\* records inside the range, its total_cost is the sum of their costs, the
\* entries are in descending order of total_cost, and the result is the same
\* for every insertion order of the same records.
C11_ServiceTotalsIndependentOfOrder ==
    (last.op = "get_cost_by_service" /\ ~last.failed) =>
        LET rows == InRange(last.args.start_date, last.args.end_date)
            services == {rows[i].service_name : i \in 1..Len(rows)}
            result == last.result
        IN  /\ Len(result) = Cardinality(services)
            /\ \A sv \in services :
                  \E i \in 1..Len(result) :
                     /\ result[i].service = sv
                     /\ LET Mine(r) == r.service_name = sv
                        IN  result[i].total_cost = ExactSum(SelectSeq(rows, Mine), "cost")
            /\ \A i, j \in 1..Len(result) :
                  i < j => result[i].total_cost >= result[j].total_cost
            /\ \A p \in Reorderings(rows) :
                  Ordered(ServiceTotalsOf(p), TotalBefore) = {result}

-----------------------------------------------------------------------------
(* The forecast page *)

MaxForecastOps == 3  \* user actions per behaviour of the forecast specification

InitForecast ==
    /\ InitStore
    /\ InitRest
    /\ ops = MaxForecastOps

NextForecast ==
    \/ Login
    \/ SelectLLM
    \/ ShowNativeForecast

SpecForecast == InitForecast /\ [][NextForecast]_vars

\* The native forecast page got its forecast and a historical total of zero.
HistoricalTotalZero ==
    /\ app.action = "forecast_native"
    /\ aws.op = "get_cost_by_service"
    /\ aws.outcome = "returned"
    /\ SumBy(aws.result, "cost") = 0

MetricsNamed(label) ==
    {i \in 1..Len(app.ui) : app.ui[i].kind = "metric" /\ app.ui[i].text = label}

\* C12: in the native forecast, when the historical total is zero the percent
\* change is not reported (the metric has no delta), no division error
\* occurs, and the forecast total and the daily average are shown.
C12_ZeroHistoryNotApplicable ==
    HistoricalTotalZero =>
        /\ \A i \in 1..Len(app.ui) :
              app.ui[i].kind = "error" =>
                 app.ui[i].text # "Error generating forecast: ZeroDivisionError"
        /\ \E i \in MetricsNamed("Forecasted Total Cost") :
              /\ app.ui[i].delta = NoDelta
              /\ \E j \in MetricsNamed("Daily Average"), k \in 1..Len(app.ui) :
                    /\ app.ui[k].kind = "subheader"
                    /\ app.ui[j].value = RoundDiv(app.ui[i].value * 100, app.ui[k].days)

C12_Witness ==
    /\ HistoricalTotalZero
    /\ \E i \in MetricsNamed("Forecasted Total Cost") :
          app.ui[i].value = 25 /\ app.ui[i].delta = NoDelta

-----------------------------------------------------------------------------
(* The records of a cost fetch *)

MaxRecordOps == 2    \* fetches per behaviour of the record specification

InitRecords ==
    /\ InitStore
    /\ last = NoCall
    /\ llm = NoBackend
    /\ app = init_session_state
    /\ \E answer \in PendingAnswers :
          aws = [AWSCostManager_init(TRUE, TRUE) EXCEPT !.pending = answer]
    /\ ops = MaxRecordOps

NextRecords ==
    \/ ReceiveCostByService
    \/ ReceiveCostByRegion
    \/ ReceiveDetailedCostData

SpecRecords == InitRecords /\ [][NextRecords]_vars

\* The number of groups in the buckets before bucket t.
RECURSIVE GroupsBefore(_, _)
GroupsBefore(response, t) ==
    IF t <= 1 THEN 0
    ELSE GroupsBefore(response, t - 1) + Len(response[t - 1].Groups)

\* C13: a cost fetch returns one record per group of every bucket, in response
\* order; the record carries the bucket's date, the group's keys in dimension
\* order (first key: service or region, second key: usage type), the group's
\* amount as cost and its unit as currency.
C13_OneRecordPerGroup ==
    (aws.op \in CostFetchOps /\ aws.outcome = "returned") =>
        LET response == aws.pending.response
            result == aws.result
        IN  /\ Len(result) = GroupsBefore(response, Len(response) + 1)
            /\ \A t \in 1..Len(response) : \A g \in 1..Len(response[t].Groups) :
                  LET group == response[t].Groups[g]
                      record == result[GroupsBefore(response, t) + g]
                  IN  /\ record.cost = float(group.Amount)
                      /\ record.currency = group.Unit
                      /\ aws.op = "get_cost_by_service" =>
                            record.date = response[t].Start /\ record.service = group.Keys[1]
                      /\ aws.op = "get_cost_by_region" =>
                            record.date = response[t].Start /\ record.region = group.Keys[1]
                      /\ aws.op = "get_detailed_cost_data" =>
                            /\ record.start_date = response[t].Start
                            /\ record.end_date = response[t].End
                            /\ record.service = group.Keys[1]
                            /\ record.usage_type = group.Keys[2]

C13_Witness ==
    /\ aws.op = "get_detailed_cost_data"
    /\ aws.outcome = "returned"
    /\ Len(aws.pending.response) = 2
    /\ Len(aws.result) = 3
    /\ aws.result[3].service = "B"

-----------------------------------------------------------------------------
(* Two sessions saving settings at the same time.  Every user action opens *)
(* a DataAccess on a session of its own (get_data_access, SessionLocal());  *)
(* the statements of two sessions interleave at the database.  In this      *)
(* specification the variable session holds the session of each of them,    *)
(* with the position of its save_user_settings call.  The table has a       *)
(* primary key on id and no unique constraint on user_id                    *)
(* (models.py: user_id = Column(String(100), nullable=False)).              *)

MaxSessionOps == 5   \* statements per behaviour of the sessions specification

Sessions == {1, 2}

SessionSettings == {[preferred_llm |-> "azure"], [budget_alerts |-> "off"]}

\* A session in which no call is under way.
IdleSession == EmptySession @@ [pc |-> "idle", args |-> <<>>]

\* existing_settings = self.db.query(UserSettings).filter(...).first() and the
\* branch taken on its result: the session then holds the changed object or
\* the new one, and the call stands before self.db.commit().
QuerySettings(k) ==
    /\ Step
    /\ StoreOnly
    /\ session[k].pc = "idle"
    /\ \E user_id \in Users, settings \in SessionSettings :
          LET found == SettingsOf(user_id)
              args == [user_id |-> user_id, settings |-> settings]
          IN  IF found # {}
              THEN /\ \E existing_settings \in found :
                        session' = [session EXCEPT ![k] =
                            [dirty |-> <<UpdateSettings(existing_settings, settings)>>,
                             new |-> <<>>, pc |-> "commit", args |-> args]]
                   /\ UNCHANGED next_id
              ELSE /\ session' = [session EXCEPT ![k] =
                          add(EmptySession, <<[tbl |-> "user_settings",
                                               row |-> UserSettings(user_id, settings, next_id)]>>)
                          @@ [pc |-> "commit", args |-> args]]
                   /\ next_id' = next_id + 1
    /\ now' = now + 1
    /\ UNCHANGED <<tables, writes, last>>

\* The UPDATE of a changed object sets the columns the call has set.
UpdatedRows(rows, s) ==
    [i \in 1..Len(rows) |->
        IF \E j \in 1..Len(s.dirty) : s.dirty[j].id = rows[i].id
        THEN LET obj == s.dirty[CHOOSE j \in 1..Len(s.dirty) : s.dirty[j].id = rows[i].id]
             IN  [a \in DOMAIN rows[i] |->
                    IF a = "updated_at" \/ a \in DOMAIN s.args.settings
                    THEN obj[a] ELSE rows[i][a]]
        ELSE rows[i]]

\* self.db.commit() of session k, and the except clause when it raises.
CommitSettings(k) ==
    /\ Step
    /\ StoreOnly
    /\ session[k].pc = "commit"
    /\ \E dbDown \in BOOLEAN :
          LET s == session[k]
              ok == FlushOK(s, dbDown)
          IN  /\ user_settings' = IF ok
                                  THEN UpdatedRows(user_settings, s) \o RowsOf(s, "user_settings")
                                  ELSE user_settings
              /\ writes' = Append(writes, [op |-> "save_user_settings", ok |-> ok,
                                            ids |-> {s.new[i].row.id : i \in 1..Len(s.new)}])
              /\ last' = [op |-> "save_user_settings", args |-> s.args, failed |-> ~ok,
                          outcome |-> IF ok THEN "returned" ELSE ExceptOfWrite(s).outcome,
                          rolled_back |-> ~ok, result |-> <<>>]
    /\ session' = [session EXCEPT ![k] = IdleSession]
    /\ now' = now + 1
    /\ UNCHANGED <<aws_cost_data, cost_forecasts, cost_recommendations, chat_history, next_id>>

InitSessions ==
    /\ aws_cost_data = <<>>
    /\ cost_forecasts = <<>>
    /\ cost_recommendations = <<>>
    /\ chat_history = <<>>
    /\ user_settings = <<>>
    /\ session = [k \in Sessions |-> IdleSession]
    /\ now = 1
    /\ next_id = 1
    /\ writes = <<>>
    /\ InitRest
    /\ ops = MaxSessionOps

NextSessions ==
    \/ \E k \in Sessions : QuerySettings(k)
    \/ \E k \in Sessions : CommitSettings(k)

SpecSessions == InitSessions /\ [][NextSessions]_vars

\* C26: the table holds at most one row per user_id, also when the
\* save_user_settings calls of two sessions for a user without a row
\* interleave, both reading the table before either commits.
C26_OneRowPerUserAcrossSessions ==
    \A i, j \in 1..Len(user_settings) :
        user_settings[i].user_id = user_settings[j].user_id => i = j

-----------------------------------------------------------------------------
(* The summary metrics of the dashboard over a range of several days *)

MaxMetricsOps == 3    \* steps per behaviour of the metrics specification

\* Answers to the request by service over three daily buckets (service A
\* with a charge and then credits, service B with the same charge every
\* day), over two buckets and over one.
RangeGroups(a, b) == <<[Keys |-> <<"A">>, Amount |-> a, Unit |-> "USD"],
                       [Keys |-> <<"B">>, Amount |-> b, Unit |-> "USD"]>>

RangeResponses ==
    {<<[Start |-> 1, End |-> 2, Groups |-> RangeGroups("25", "7")],
       [Start |-> 2, End |-> 3, Groups |-> RangeGroups("-3", "7")],
       [Start |-> 3, End |-> 4, Groups |-> RangeGroups("-3", "7")]>>,
     <<[Start |-> 1, End |-> 2, Groups |-> RangeGroups("25", "7")],
       [Start |-> 2, End |-> 3, Groups |-> RangeGroups("25", "0")]>>,
     <<[Start |-> 1, End |-> 2, Groups |-> RangeGroups("25", "7")]>>}

ShowRangeDashboard ==
    /\ Step
    /\ app.authenticated
    /\ \E provider \in Answers(RangeResponses), provider2 \in ChatAnswers,
          provider3 \in DetailAnswers,
          provider4 \in Failures \cup Answers(ForecastResponses(PromptForecastDays)),
          dbDown \in BOOLEAN :
          display_dashboard(provider, provider2, provider3, provider4, dbDown)

InitMetrics ==
    /\ InitStore
    /\ InitRest
    /\ ops = MaxMetricsOps

NextMetrics ==
    \/ Login
    \/ ShowRangeDashboard

SpecMetrics == InitMetrics /\ [][NextMetrics]_vars

\* The records the dashboard fetched and submitted to the store.
Fetched == last.args.items

\* The cost of a service summed over the fetched records.
RangeCost(service) ==
    LET Mine(r) == r.service = service
    IN  SumBy(SelectSeq(Fetched, Mine), "cost")

MetricValues(label) == {app.ui[i].value : i \in MetricsNamed(label)}

MetricsShown ==
    /\ app.action = "dashboard"
    /\ last.op = "save_cost_data"
    /\ MetricsNamed("Total Cost") # {}

\* The Total Cost shown is the sum of all fetched costs.
TotalCostIsSum ==
    MetricsShown => MetricValues("Total Cost") = {SumBy(Fetched, "cost")}

\* C28: on the dashboard, for a range of several daily buckets, the Total
\* Cost is the sum of all fetched costs, the Top Service is the service
\* whose cost summed over the whole range is greatest, and Services Used is
\* the number of distinct services.
C28_MetricsOfTheRange ==
    MetricsShown =>
        /\ MetricValues("Total Cost") = {SumBy(Fetched, "cost")}
        /\ \A top \in MetricValues("Top Service") :
              \A i \in 1..Len(Fetched) : RangeCost(Fetched[i].service) <= RangeCost(top.service)
        /\ MetricValues("Services Used")
              = {Cardinality({Fetched[i].service : i \in 1..Len(Fetched)})}

-----------------------------------------------------------------------------
(* The chat turn that is persisted *)

\* A step of the chat action: the prompt is appended to the transcript.
ChatStep == Len(app'.messages) > Len(app.messages)

\* The k-th message the chat step appended.
Appended(k) == app'.messages[Len(app.messages) + k]

\* The selected backend was called in the step and returned a string.
BackendReturned == app'.trace.called # <<>> /\ llm'.outcome = "returned"

\* The reply of the except clause of the chat action.
ErrorReply(message) ==
    [role |-> "assistant", content |-> "Sorry, I encountered an error: " \o message]

\* The chat step ended in the except clause before a response was there:
\* nothing is persisted and the transcript gains the prompt and the error
\* reply.
OnlyErrorReply ==
    /\ chat_history' = chat_history
    /\ Len(app'.messages) = Len(app.messages) + 2
    /\ Appended(2) = ErrorReply(IF aws'.outcome = "raised" THEN aws'.message ELSE llm'.text)

\* C29 as stated: a chat turn is persisted exactly when the selected backend
\* returned a response string; when the backend or the billing fetch raises,
\* nothing is persisted and an error reply goes to the transcript only.
C29_PersistedExactlyWhenReturned ==
    [][ChatStep =>
          /\ (Len(chat_history') = Len(chat_history) + 1) <=> BackendReturned
          /\ ~BackendReturned => OnlyErrorReply]_vars

\* C29, amended: the chat action submits a chat turn to the store exactly
\* when the selected backend returned a response string, the error string of
\* a GitHub backend without a client included, and the turn is persisted
\* when the store accepts it; when save_chat_history raises nothing is
\* persisted and the error reply follows the response in the transcript;
\* when the backend or the billing fetch raises nothing is persisted and the
\* error reply alone follows the prompt.
C29_PersistedWhenReturnedAndStored ==
    [][ChatStep =>
          LET submitted == last'.op = "save_chat_history" /\ Len(writes') = Len(writes) + 1
              response == [role |-> "assistant", content |-> llm'.text]
          IN  /\ Appended(1).role = "user"
              /\ submitted <=> BackendReturned
              /\ (app'.trace.instantiated = <<"github">> /\ ~llm'.client) =>
                    BackendReturned /\ llm'.text = GitHubNotInitialized
              /\ (BackendReturned /\ ~last'.failed) =>
                    /\ Len(chat_history') = Len(chat_history) + 1
                    /\ SubSeq(chat_history', 1, Len(chat_history)) = chat_history
                    /\ chat_history'[Len(chat_history')].user_query = Appended(1).content
                    /\ chat_history'[Len(chat_history')].assistant_response = llm'.text
                    /\ Len(app'.messages) = Len(app.messages) + 2
                    /\ Appended(2) = response
              /\ (BackendReturned /\ last'.failed) =>
                    /\ chat_history' = chat_history
                    /\ Len(app'.messages) = Len(app.messages) + 3
                    /\ Appended(2) = response
                    /\ Appended(3) = ErrorReply("database")
              /\ ~BackendReturned => OnlyErrorReply]_vars

\* A turn persisted with the error string of a GitHub backend without a
\* client.
C29_Witness ==
    /\ app.action = "chat"
    /\ app.preferred_llm = "github"
    /\ last.op = "save_chat_history" /\ ~last.failed
    /\ Len(chat_history) = 1
    /\ chat_history[1].assistant_response = GitHubNotInitialized
    /\ Len(app.messages) = 2
    /\ app.messages[2].content = GitHubNotInitialized

-----------------------------------------------------------------------------
(* The GitHub backend and the environment of the process.  The environment *)
(* the constructor reads (GITHUB_TOKEN, and whether the client constructor *)
(* succeeds) is kept with the backend as environ.                          *)

MaxGitHubOps == 5    \* constructions and calls per behaviour of the GitHub specification

NewGitHubFromEnviron ==
    /\ Step /\ BackendOnly
    /\ llm' = GitHubOpenAIManager_init(llm.environ) @@ [environ |-> llm.environ]

InitGitHub ==
    /\ InitStore
    /\ last = NoCall
    /\ aws = NoClient
    /\ app = init_session_state
    /\ \E environ \in GitHubEnvs : llm = NoBackend @@ [environ |-> environ]
    /\ ops = MaxGitHubOps

NextGitHub ==
    \/ NewGitHubFromEnviron
    \/ GenerateResponse
    \/ AnalyzeCostData
    \/ GenerateCostInsights

SpecGitHub == InitGitHub /\ [][NextGitHub]_vars

GitHubCalls == {"generate_response", "analyze_cost_data", "generate_cost_insights"}

\* C30: the constructor of the GitHub backend never raises; without a token
\* the backend holds no client, and generate_response, analyze_cost_data
\* and generate_cost_insights each return the fixed message without a
\* request to the API; with a client a failed request is returned as a
\* non-empty error string and nothing is raised.
C30_GitHubReturnsErrorStrings ==
    llm.kind = "github" =>
        /\ llm.outcome = "returned"
        /\ llm.built
        /\ ~llm.environ.token => ~llm.client
        /\ llm.op \in GitHubCalls \cup {"__init__"}
        /\ (llm.op \in GitHubCalls /\ ~llm.client) =>
              /\ llm.text = GitHubNotInitialized
              /\ llm.received = NoCompletion
        /\ (llm.op \in GitHubCalls /\ llm.client) =>
              /\ llm.received \in Completions
              /\ ~llm.received.ok =>
                    /\ llm.text = GitHubErrorText(llm.received.message)
                    /\ llm.text # ""

\* analyze_cost_data on a backend constructed without a token returned the
\* fixed message.
C30_Witness ==
    /\ llm.kind = "github"
    /\ ~llm.environ.token
    /\ llm.op = "analyze_cost_data"
    /\ llm.text = GitHubNotInitialized
    /\ llm.received = NoCompletion

====
